---- MODULE Spec2Model ----
(***************************************************************************)
(* Hydrogenic wavefunction evaluators of src/hydrogen_wavefunction.py:     *)
(* radial_wavefunction_Rnl, spherical_harmonic_Ylm and the slice composer  *)
(* compute_psi_xz_slice, modelled statement by statement.                  *)
(*                                                                         *)
(* Number representation.  Python floats are modelled in fixed units:      *)
(*   masses   exact fractions <<num, den>> of the electron mass;           *)
(*   lengths  integers counting 1e-14 m, products and quotients rounded    *)
(*            to the nearest unit;                                         *)
(*   cosines  integers counting 1/CosScale;                                *)
(*   angles   integers counting milliradians.                              *)
(* An optional value is None (<<>>) or Some(v) (<<v>>).                    *)
(***************************************************************************)
EXTENDS Integers, Sequences, FiniteSets, TLC

\* ------------------------------------------------------------- bounds
MaxN == 2
MaxGrid == 3
MaxExtent == 2

\* ------------------------------------------------ physical constants
\* scipy.constants: electron mass, proton mass (units of m_e), Bohr radius
\* (units of 1e-14 m).
m_e == 1
m_p == 1836
a0 == 5292

\* Fixed-point scales of the representation.
CosScale == 1000
PI == 3142
PI_HALF == (PI + 1) \div 2

\* IEEE infinity and not-a-number, and the content of memory that
\* np.empty_like has allocated and nothing has written yet.
Inf == 2000000000
NaN == 2000000001
Uninit == 2000000002

None == <<>>
Some(v) == <<v>>

\* ------------------------------------------------------- arithmetic
Abs(x) == IF x < 0 THEN -x ELSE x

\* x > 0 as IEEE compares: false for a NaN.
Positive(x) == x # NaN /\ x > 0

\* a / b rounded to the nearest integer, symmetric in the sign (b # 0).
FDiv(a, b) ==
    LET q == (2 * Abs(a) + Abs(b)) \div (2 * Abs(b))
    IN  IF (a < 0) = (b < 0) THEN q ELSE -q

\* Zg / r of np.divide, as a cosine: x/0 is an infinity, 0/0 a NaN.
Divide(z, rv) ==
    IF rv = NaN \/ z = NaN THEN NaN
    ELSE IF rv = 0 THEN (IF z = 0 THEN NaN ELSE IF z > 0 THEN Inf ELSE -Inf)
    ELSE FDiv(z * CosScale, rv)

RECURSIVE GCD(_, _)
GCD(a, b) == IF b = 0 THEN a ELSE GCD(b, a % b)

\* The fraction num/den in lowest terms (den > 0).
Rat(num, den) ==
    LET g == GCD(Abs(num), Abs(den))
    IN  <<num \div g, den \div g>>

\* Largest s in lo..hi with s*s <= v.
RECURSIVE SqrtSearch(_, _, _)
SqrtSearch(v, lo, hi) ==
    IF lo >= hi THEN lo
    ELSE LET mid == (lo + hi + 1) \div 2
         IN  IF mid * mid <= v THEN SqrtSearch(v, mid, hi)
             ELSE SqrtSearch(v, lo, mid - 1)

\* sqrt(v) rounded to the nearest integer.
RSqrt(v) ==
    LET s == SqrtSearch(v, 0, 46340)
    IN  IF v - s * s > s THEN s + 1 ELSE s

\* np.hypot
Hypot(x, z) == RSqrt(x * x + z * z)

\* np.clip: a NaN stays a NaN.
Clip(c, lo, hi) ==
    IF c = NaN THEN NaN
    ELSE IF c < lo THEN lo
    ELSE IF c > hi THEN hi
    ELSE c

\* arccos on [0, 1] (Abramowitz & Stegun 4.4.45):
\* sqrt(1-x) * (1.5707288 - 0.2121144 x + 0.0742610 x^2 - 0.0187293 x^3).
ArcCosPos(c) ==
    LET p3 == 743 - FDiv(187 * c, CosScale)
        p2 == FDiv(p3 * c, CosScale) - 2121
        p1 == FDiv(p2 * c, CosScale) + 15707
        s  == RSqrt((CosScale - c) * CosScale)
    IN  FDiv(s * p1, 10000)

\* np.arccos: NaN outside [-1, 1].
ArcCos(c) ==
    IF c = NaN \/ c < -CosScale \/ c > CosScale THEN NaN
    ELSE IF c >= 0 THEN ArcCosPos(c)
    ELSE PI - ArcCosPos(-c)

\* ------------------------------------------------- floating numbers
\* A float of wide range (a wavefunction sample, a normalization) is a pair
\* <<m, e>> standing for m * 10^e, with four significant digits:
\* MantMin <= |m| < 10 * MantMin, or <<0, 0>>.  A float of moderate size (a
\* logarithm, rho, the argument of an exponential) is an integer counting
\* 1/FixScale.
MantMin == 1000
FixScale == 10000
\* ln(10) and the logarithms of 1..9, in units of 1/FixScale.
LN10 == 23026
LnTable == <<0, 6931, 10986, 13863, 16094, 17918, 19459, 20794, 21972>>

\* 10^k for 0 <= k <= 9
Pow10(k) ==
    <<1, 10, 100, 1000, 10000, 100000, 1000000, 10000000, 100000000,
      1000000000>>[k + 1]

\* The number of decimal digits of a > 0 beyond the fourth (negative: the
\* number of digits missing).
ExcessDigits(a) ==
    IF a >= 10000
    THEN IF a >= 10000000
         THEN IF a >= 1000000000 THEN 6 ELSE IF a >= 100000000 THEN 5 ELSE 4
         ELSE IF a >= 1000000 THEN 3 ELSE IF a >= 100000 THEN 2 ELSE 1
    ELSE IF a >= 1000 THEN 0
    ELSE IF a >= 100 THEN -1 ELSE IF a >= 10 THEN -2 ELSE -3

\* Rounding of m * 10^e to four significant digits.
FNorm(m, e) ==
    IF m = 0 THEN <<0, 0>>
    ELSE LET Carry(q, x) ==
                 IF Abs(q) >= 10 * MantMin THEN <<q \div 10, x + 1>>
                 ELSE <<q, x>>
             Round(d) ==
                 Carry(IF d > 0 THEN FDiv(m, Pow10(d)) ELSE m * Pow10(-d),
                       e + d)
         IN  Round(ExcessDigits(Abs(m)))

\* The float NaN; every operation on a NaN yields a NaN.
FNaN == <<NaN, 0>>

FromInt(k) == FNorm(k, 0)
\* A fixed-point number as a float.
FromFix(x) == IF x = NaN THEN FNaN ELSE FNorm(x, -4)

FNeg(a) == IF a = FNaN THEN FNaN ELSE <<-a[1], a[2]>>
FMul(a, b) ==
    IF a = FNaN \/ b = FNaN THEN FNaN
    ELSE FNorm(a[1] * b[1], a[2] + b[2])
FDivide(a, b) ==
    IF a = FNaN \/ b = FNaN THEN FNaN
    ELSE FNorm(FDiv(a[1] * 100000, b[1]), a[2] - b[2] - 5)
FAdd(a, b) ==
    IF a = FNaN \/ b = FNaN THEN FNaN
    ELSE IF a[1] = 0 THEN b
    ELSE IF b[1] = 0 THEN a
    ELSE IF a[2] >= b[2]
    THEN IF a[2] - b[2] > 4 THEN a
         ELSE FNorm(a[1] * Pow10(a[2] - b[2]) + b[1], b[2])
    ELSE IF b[2] - a[2] > 4 THEN b
         ELSE FNorm(b[1] * Pow10(b[2] - a[2]) + a[1], a[2])
FSub(a, b) == FAdd(a, FNeg(b))
FAbs(a) == IF a = FNaN THEN FNaN ELSE <<Abs(a[1]), a[2]>>

\* a < b, a <= b as IEEE compares: false if either is a NaN.
FLess(a, b) == LET Neg(d) == d # FNaN /\ d[1] < 0 IN Neg(FSub(a, b))
FLeq(a, b) == LET NonPos(d) == d # FNaN /\ d[1] <= 0 IN NonPos(FSub(a, b))

\* np.sqrt (a >= 0)
FSqrt(a) ==
    IF a = FNaN \/ a[1] < 0 THEN FNaN
    ELSE IF a[1] = 0 THEN <<0, 0>>
    ELSE LET odd == a[2] % 2 # 0
             m == IF odd THEN a[1] * 10 ELSE a[1]
             e == IF odd THEN a[2] - 1 ELSE a[2]
         IN  FNorm(RSqrt(m * 10000), (e - 4) \div 2)

\* np.power(a, k), k a non-negative integer; 0^0 = 1.
RECURSIVE Power(_, _)
Power(a, k) == IF k = 0 THEN FromInt(1) ELSE FMul(a, Power(a, k - 1))

\* x * y of two fixed-point numbers.
XMul(x, y) == FDiv(x * y, FixScale)

\* exp on [0, ln 10): the series of exp(u/8) to the fourth order, squared
\* three times.
ExpSmall(u) ==
    LET Series(v) ==
            FixScale + XMul(v, FixScale + XMul(FDiv(v, 2),
                FixScale + XMul(FDiv(v, 3), FixScale + FDiv(v, 4))))
        Square(x) == XMul(x, x)
    IN  Square(Square(Square(Series(FDiv(u, 8)))))

\* np.exp of a fixed-point number, as a float.
Exp(t) == FNorm(ExpSmall(t % LN10), (t \div LN10) - 4)

\* np.log of a float a > 0, as a fixed-point number:
\* ln(m/1000) + (e+3) ln 10, and ln(x) = ln(k) + 2 atanh((x-k)/(x+k)) for the
\* integer part k of x.
Log(a) ==
    LET Series(z, z2) ==
            z + XMul(z, XMul(z2, 3333 + XMul(z2, 2000 + XMul(z2, 1429))))
        Atanh(z) == Series(z, XMul(z, z))
        Mantissa(k) ==
            LnTable[k]
            + 2 * Atanh(FDiv((a[1] - k * MantMin) * FixScale, a[1] + k * MantMin))
    IN  Mantissa(a[1] \div MantMin) + (a[2] + 3) * LN10

\* sp.gammaln at an integer k: ln Gamma(k) = ln 1 + ... + ln(k-1) for
\* k >= 1, a pole (an infinity) for k <= 0.
RECURSIVE gammaln(_)
gammaln(k) ==
    IF k <= 0 THEN Inf
    ELSE IF k = 1 THEN 0
    ELSE Log(FromInt(k - 1)) + gammaln(k - 1)

\* sp.factorial
RECURSIVE factorial(_)
factorial(k) == IF k <= 0 THEN 1 ELSE k * factorial(k - 1)

\* sp.eval_genlaguerre(k, alpha, x), the generalized Laguerre polynomial
\* L_k^(alpha)(x), by its three-term recurrence
\* j L_j = (2j - 1 + alpha - x) L_{j-1} - (j - 1 + alpha) L_{j-2}.
RECURSIVE eval_genlaguerre(_, _, _)
eval_genlaguerre(k, alpha, x) ==
    IF k <= 0 THEN FromInt(1)
    ELSE IF k = 1 THEN FSub(FromInt(1 + alpha), x)
    ELSE FDivide(FSub(FMul(FSub(FromInt(2 * k - 1 + alpha), x),
                           eval_genlaguerre(k - 1, alpha, x)),
                      FMul(FromInt(k - 1 + alpha),
                           eval_genlaguerre(k - 2, alpha, x))),
                 FromInt(k))

\* cos and sin of an angle in milliradians, as fixed-point numbers: the
\* angle is reduced to [0, pi/2] and the series taken to the eighth order.
CosSeries(t) ==
    LET Series(x2) ==
            FixScale - XMul(FDiv(x2, 2), FixScale - XMul(FDiv(x2, 12),
                FixScale - XMul(FDiv(x2, 30), FixScale - FDiv(x2, 56))))
    IN  Series(XMul(t * 10, t * 10))
SinSeries(t) ==
    LET Series(x2) ==
            FixScale - XMul(FDiv(x2, 6), FixScale - XMul(FDiv(x2, 20),
                FixScale - XMul(FDiv(x2, 42), FixScale - FDiv(x2, 72))))
    IN  XMul(t * 10, Series(XMul(t * 10, t * 10)))
Cos(t) ==
    LET Fold(w) ==
            IF w > PI_HALF THEN <<-1, PI - w>> ELSE <<1, w>>
        Half(u) == Fold(IF u > PI THEN 2 * PI - u ELSE u)
        Signed(f) == f[1] * CosSeries(f[2])
    IN  IF t = NaN THEN NaN ELSE Signed(Half(Abs(t) % (2 * PI)))
Sin(t) ==
    LET Fold(sg, w) ==
            IF w > PI_HALF THEN <<sg, PI - w>> ELSE <<sg, w>>
        Half(u) == IF u > PI THEN Fold(-1, u - PI) ELSE Fold(1, u)
        Signed(f) == f[1] * SinSeries(f[2])
    IN  IF t = NaN THEN NaN ELSE Signed(Half(t % (2 * PI)))

\* The associated Legendre function P_l^m(x), m >= 0, with the
\* Condon-Shortley phase; x = cos(theta), s = sin(theta).  It vanishes for
\* m > l.
RECURSIVE LegendreMM(_, _)
LegendreMM(m, s) ==
    IF m = 0 THEN FromInt(1)
    ELSE FMul(FMul(FromInt(-(2 * m - 1)), s), LegendreMM(m - 1, s))
RECURSIVE LegendreP(_, _, _, _)
LegendreP(l, m, x, s) ==
    IF m > l THEN <<0, 0>>
    ELSE IF l = m THEN LegendreMM(m, s)
    ELSE IF l = m + 1 THEN FMul(FMul(FromInt(2 * m + 1), x), LegendreMM(m, s))
    ELSE FDivide(FSub(FMul(FMul(FromInt(2 * l - 1), x), LegendreP(l - 1, m, x, s)),
                      FMul(FromInt(l + m - 1), LegendreP(l - 2, m, x, s))),
                 FromInt(l - m))

\* 4 pi
FOUR_PI == <<1257, -2>>

\* sp.sph_harm_y(l, m, theta, phi) at one point, a complex number <<re, im>>:
\* sqrt((2l+1)/(4 pi) (l-|m|)!/(l+|m|)!) P_l^|m|(cos theta) e^(i m phi), and
\* Y_l^(-m) = (-1)^m conj(Y_l^m).
SphNorm(l, m) ==
    FSqrt(FDivide(FromInt((2 * l + 1) * factorial(l - Abs(m))),
                  FMul(FOUR_PI, FromInt(factorial(l + Abs(m))))))
SphPoint(norm, l, m, th, ph) ==
    LET Signed(amp) == IF m < 0 /\ Abs(m) % 2 = 1 THEN FNeg(amp) ELSE amp
        Phase(amp) ==
            <<FMul(amp, FromFix(Cos(m * ph))), FMul(amp, FromFix(Sin(m * ph)))>>
    IN  Phase(Signed(FMul(norm, LegendreP(l, Abs(m), FromFix(Cos(th)),
                                          FromFix(Sin(th))))))
sph_harm_y(l, m, th, ph) == SphPoint(SphNorm(l, m), l, m, th, ph)

\* ----------------------------------------------------------- arrays
\* A 2-D array is a function on Cells(rows, cols), a 1-D array a function on
\* 0..len-1 (numpy's zero-based indices).
Idx(len) == 0 .. (len - 1)
Cells(rows, cols) == Idx(rows) \X Idx(cols)

Shape2(A) ==
    <<Cardinality({c[1] : c \in DOMAIN A}), Cardinality({c[2] : c \in DOMAIN A})>>

SetMin(S) == CHOOSE x \in S : \A y \in S : x <= y
SetMax(S) == CHOOSE x \in S : \A y \in S : x >= y
Values(A) == {A[c] : c \in DOMAIN A}

\* ------------------------------------------------------- input sets
\* Quantum numbers around the valid region, n = 0 and l = -1 included.
NValues == 0 .. MaxN
LValues == -1 .. MaxN
MValues == -MaxN .. MaxN
ZValues == {1, 2}
\* Nuclear masses in units of m_e: omitted, the proton, the alpha particle.
MassValues == {None, Some(1836), Some(7294)}
ExtentValues == 1 .. MaxExtent
GridValues == 1 .. MaxGrid
PhiValues == {0, 785}
PhiModes == {"plane", "constant"}

VARIABLES
    pc,           \* the statement the call in progress is at
    fn,           \* the function called from outside
    args,         \* its arguments
    mu, a_mu,     \* locals: reduced mass, length scale (optional values)
    axis, Xg, Zg, \* locals of compute_psi_xz_slice: the grid
    r, cos_theta, theta, phi,
    R, Y,         \* radial and angular samples
    ret,          \* what the call returned or raised
    helper_calls, \* calls of reduced_electron_nucleus_mass made by this call
    divisors,     \* the values np.divide has divided by in this call
    read_uninit,  \* whether an unwritten cos_theta entry has been read
    radial,       \* locals of the radial evaluation made by this call
    memo,         \* an earlier call and its outcome, kept for comparison
    wf,           \* the caller's WaveFunction object (hwf_plots.py)
    plot,         \* the frame of plot_hydrogen_wavefunction_xz
    rc,           \* matplotlib's global configuration (plt.rcParams)
    calls,        \* the plot calls made on wf so far, oldest first
    cli           \* the command-line program (hydrogen_wavefunction_cli.py)

vars == <<pc, fn, args, mu, a_mu, axis, Xg, Zg, r, cos_theta, theta, phi,
          R, Y, ret, helper_calls, divisors, read_uninit, radial, memo,
          wf, plot, rc, calls, cli>>

\* What lies outside the functions of hydrogen_wavefunction.py.
outer == <<wf, plot, rc, calls, cli>>

\* No plot call is in progress; the command-line program has not started.
PlotIdle == [pc |-> "idle"]
CliIdle ==
    [pc |-> "off", interactive |-> FALSE, n |-> None, l |-> None, m |-> None,
     a0_scale_factor |-> None, dark_theme |-> FALSE, colormap |-> "rocket",
     invoked |-> None]

NoReturn == [status |-> "none", value |-> None]
Raise(err) == [status |-> err, value |-> None]
Return(v) == [status |-> "ok", value |-> v]

\* ------------------------------------------- reduced-mass helpers (4.3)
\* mu = m_e * M / (m_e + M); M omitted: the proton for Z = 1, an error for
\* Z > 1.
reduced_electron_nucleus_mass(Z, M) ==
    IF M = None
    THEN IF Z = 1
         THEN [raised |-> FALSE, mu |-> Rat(m_e * m_p, m_e + m_p), helper |-> 1]
         ELSE [raised |-> TRUE, mu |-> None, helper |-> 1]
    ELSE [raised |-> FALSE, mu |-> Rat(m_e * M[1], m_e + M[1]), helper |-> 1]

\* a_mu = a0 * (m_e / mu), mu a fraction <<num, den>>.
reduced_bohr_radius(m) == FDiv(a0 * m_e * m[2], m[1])

\* ------------------------------------------------- entry conditions
\* Mutants of the entry conditions: the upper bound of l off by one, the lower
\* bound of m forgotten, the m test of the composer forgotten.
ValidNL_OffByOne(n, l) == n >= 1 /\ 0 <= l /\ l <= n
ValidLM_NoLower(l, m) == l >= 0 /\ m <= l
ValidNLM_NoM(n, l, m) == n >= 1 /\ 0 <= l /\ l <= n - 1

ValidNL(n, l) == n >= 1 /\ 0 <= l /\ l <= n - 1
ValidLM(l, m) == l >= 0 /\ -l <= m /\ m <= l
ValidNLM(n, l, m) == n >= 1 /\ 0 <= l /\ l <= n - 1 /\ -l <= m /\ m <= l

\* Mutant of the radial evaluator's mass resolution: M not passed on.
RnlResolveMu_DropM(Z, use_reduced_mass, M) ==
    IF use_reduced_mass THEN reduced_electron_nucleus_mass(Z, None)
    ELSE [raised |-> FALSE, mu |-> Rat(m_e, 1), helper |-> 0]

\* mu = reduced_electron_nucleus_mass(Z, M) if use_reduced_mass else m_e
RnlResolveMu(Z, use_reduced_mass, M) ==
    IF use_reduced_mass THEN reduced_electron_nucleus_mass(Z, M)
    ELSE [raised |-> FALSE, mu |-> Rat(m_e, 1), helper |-> 0]

\* Mutants of the composer's mass resolution: the flag ignored; M not passed
\* on; the missing-mass case left for the radial evaluator to find.
PsiResolveMu_Always(Z, use_reduced_mass, M) ==
    reduced_electron_nucleus_mass(Z, M)
PsiResolveMu_DropM(Z, use_reduced_mass, M) ==
    IF use_reduced_mass THEN reduced_electron_nucleus_mass(Z, None)
    ELSE [raised |-> FALSE, mu |-> Rat(m_e, 1), helper |-> 0]
PsiResolveMu_Late(Z, use_reduced_mass, M) ==
    IF use_reduced_mass /\ ~(M = None /\ Z # 1)
    THEN reduced_electron_nucleus_mass(Z, M)
    ELSE [raised |-> FALSE, mu |-> Rat(m_e, 1), helper |-> 0]

PsiResolveMu(Z, use_reduced_mass, M) ==
    IF use_reduced_mass THEN reduced_electron_nucleus_mass(Z, M)
    ELSE [raised |-> FALSE, mu |-> Rat(m_e, 1), helper |-> 0]

\* ------------------------------------------------------- evaluators
\* A numpy array handed to an evaluator: its dtype and its entries.
IntArr(d) == [dtype |-> "int", data |-> d]
FloatArr(d) == [dtype |-> "float", data |-> d]

\* np.asarray(a, dtype=float): a float array is returned as it is, integers
\* (radians) become floats (milliradians).
AsFloatArray(a) ==
    IF a.dtype = "float" THEN a
    ELSE FloatArr([c \in DOMAIN a.data |-> a.data[c] * 1000])

\* A length of the model (units of 1e-14 m) as a float in metres.
Metres(x) == FNorm(x, -14)

\* rho = 2.0 * Z * r / (n * a_mu), a fixed-point number.
RnlRho(n, Z, amu, rv) == FDiv(2 * Z * rv * FixScale, n * amu)

\* The degree and the parameter sp.eval_genlaguerre is called with, and the
\* arguments of the two sp.gammaln calls.
LaguerreDegree(n, l) == n - l - 1
LaguerreParam(l) == 2 * l + 1
GammaArgs(n, l) == <<n - l, n + l + 1>>

\* Mutants of the log-prefactor: the exponent 3/2 taken as 1/2; the second
\* log-gamma taken at n + l.
RnlLogPref_HalfPower(n, l, Z, amu) ==
    LET q == FDivide(FromInt(2 * Z), FMul(FromInt(n), Metres(amu)))
    IN  FDiv(Log(q), 2)
        + FDiv(gammaln(GammaArgs(n, l)[1])
               - (Log(FromInt(2 * n)) + gammaln(GammaArgs(n, l)[2])), 2)

\* log_pref = 1.5 * np.log(2.0 * Z / (n * a_mu))
\* log_pref += 0.5 * (sp.gammaln(n - l) - (np.log(2.0 * n) + sp.gammaln(n + l + 1)))
RnlLogPref(n, l, Z, amu) ==
    LET q == FDivide(FromInt(2 * Z), FMul(FromInt(n), Metres(amu)))
    IN  FDiv(3 * Log(q), 2)
        + FDiv(gammaln(GammaArgs(n, l)[1])
               - (Log(FromInt(2 * n)) + gammaln(GammaArgs(n, l)[2])), 2)

\* Mutant: the exponential grows with rho.
RnlSample_Growing(pref, rho, l, L) ==
    FMul(FMul(FMul(pref, Exp(FDiv(rho, 2))), Power(FromFix(rho), l)), L)

\* R = pref * np.exp(-rho / 2.0) * np.power(rho, l) * L at one point.
RnlSample(pref, rho, l, L) ==
    FMul(FMul(FMul(pref, Exp(FDiv(-rho, 2))), Power(FromFix(rho), l)), L)

\* The scalar locals of radial_wavefunction_Rnl after line 50: log_pref and
\* pref, with the arguments the special functions were called with and the
\* length scale in use.
RnlLocals(n, l, Z, amu) ==
    LET Locals(log_pref) ==
            [log_pref |-> log_pref,
             pref |-> Exp(log_pref),
             laguerre |-> <<LaguerreDegree(n, l), LaguerreParam(l)>>,
             gamma |-> GammaArgs(n, l),
             a_mu |-> amu]
    IN  Locals(RnlLogPref(n, l, Z, amu))

\* R_{n,l} at every entry of rarr (lines 42-51); the array has the shape of
\* rarr.
RnlValues(n, l, rarr, Z, amu) ==
    LET pref == Exp(RnlLogPref(n, l, Z, amu))
    IN  [c \in DOMAIN rarr |->
            LET rho == RnlRho(n, Z, amu, rarr[c])
                L == eval_genlaguerre(LaguerreDegree(n, l), LaguerreParam(l),
                                      FromFix(rho))
            IN  RnlSample(pref, rho, l, L)]

\* sp.sph_harm_y(l, m, theta, phi) at every entry: complex samples.
YlmValues(l, m, th, ph) ==
    LET norm == SphNorm(l, m)
    IN  [c \in DOMAIN th |-> SphPoint(norm, l, m, th[c], ph[c])]

\* The call radial_wavefunction_Rnl(n, l, r, Z, use_reduced_mass, M) as a whole.
radial_wavefunction_Rnl(n, l, rarr, Z, use_reduced_mass, M) ==
    IF ~ValidNL(n, l)
    THEN [status |-> "InvalidQuantumNumbers", value |-> None, helper |-> 0,
          locals |-> None]
    ELSE LET res == RnlResolveMu(Z, use_reduced_mass, M)
         IN  IF res.raised
             THEN [status |-> "MissingParameter", value |-> None,
                   helper |-> res.helper, locals |-> None]
             ELSE [status |-> "ok",
                   value |-> RnlValues(n, l, rarr, Z, reduced_bohr_radius(res.mu)),
                   helper |-> res.helper,
                   locals |-> RnlLocals(n, l, Z, reduced_bohr_radius(res.mu))]

\* The call spherical_harmonic_Ylm(l, m, theta, phi) as a whole.
spherical_harmonic_Ylm(l, m, th, ph) ==
    IF ~ValidLM(l, m)
    THEN [status |-> "InvalidQuantumNumbers", value |-> None]
    ELSE [status |-> "ok",
          value |-> YlmValues(l, m, AsFloatArray(th).data, AsFloatArray(ph).data)]

\* ------------------------- the factorial-based radial_function (naive)
\* src/hydrogen_wavefunctions.py, lines 23-29 (the same statements in
\* hydrogen_wavefunction_annotated.py and hydrogen_wavefunction_cli.py):
\*   laguerre = sp.genlaguerre(n - l - 1, 2 * l + 1)
\*   p = 2 * r / (n * a0)
\*   np.sqrt(((2 / n * a0) ** 3 * factorial(n - l - 1)) / (2 * n * factorial(n + l)))
\*       * np.exp(-p / 2) * (p ** l) * laguerre(p)
\* Python reads 2 / n * a0 as (2 / n) * a0.
NaiveConstantFactor(n, l, a) ==
    LET base == FMul(FDivide(FromInt(2), FromInt(n)), Metres(a))
    IN  FSqrt(FDivide(FMul(Power(base, 3), FromInt(factorial(n - l - 1))),
                      FromInt(2 * n * factorial(n + l))))

radial_function(n, l, rarr, a) ==
    [c \in DOMAIN rarr |->
        LET p == FDiv(2 * rarr[c] * FixScale, n * a)
        IN  FMul(FMul(FMul(NaiveConstantFactor(n, l, a), Exp(FDiv(-p, 2))),
                      Power(FromFix(p), l)),
                 eval_genlaguerre(n - l - 1, 2 * l + 1, FromFix(p)))]

\* ------------------------------------------- compute_psi_xz_slice steps
\* np.linspace(start, stop, num), endpoint included.
Linspace(start, stop, num) ==
    LET div == num - 1
        delta == stop - start
    IN  [i \in Idx(num) |->
            IF num > 1 /\ i = num - 1 THEN stop
            ELSE IF div > 0 THEN i * FDiv(delta, div) + start
            ELSE i * delta + start]

\* Mutant: the axis starts at the nucleus.
PsiAxis_OneSided(r_max, grid_points) == Linspace(0, r_max, grid_points)

\* axis = np.linspace(-r_max, r_max, grid_points)
PsiAxis(r_max, grid_points) == Linspace(-r_max, r_max, grid_points)

\* Zg, Xg = np.meshgrid(axis, axis, indexing="ij")
MeshZ(ax) == [c \in (DOMAIN ax) \X (DOMAIN ax) |-> ax[c[1]]]
\* Mutant: Xg left one-dimensional (a single row).
MeshX_Row(ax) == [c \in {0} \X (DOMAIN ax) |-> ax[c[2]]]

MeshX(ax) == [c \in (DOMAIN ax) \X (DOMAIN ax) |-> ax[c[2]]]

\* r = np.hypot(Xg, Zg)
PsiRadius(X, Zc) == [c \in DOMAIN X |-> Hypot(X[c], Zc[c])]

\* where=(r > 0)
WhereMask(rv) == [c \in DOMAIN rv |-> Positive(rv[c])]

\* np.empty_like(r)
EmptyLike(rv) == [c \in DOMAIN rv |-> Uninit]

\* np.divide(Zg, r, out=cos_theta, where=mask): entries outside the mask keep
\* what out held.
DivideWhere(Zc, rv, out, mask) ==
    [c \in DOMAIN rv |-> IF mask[c] THEN Divide(Zc[c], rv[c]) ELSE out[c]]

\* Mutant: the assignment at the origin is missing.
FixOrigin_Missing(ct, rv) == ct

\* cos_theta[r == 0] = 1.0
FixOrigin(ct, rv) == [c \in DOMAIN ct |-> IF rv[c] = 0 THEN CosScale ELSE ct[c]]

\* What a read of cos_theta yields: an unwritten entry holds any bit pattern.
Garbage == {-3 * CosScale, 0, 250, 3 * CosScale, NaN}
UninitCells(ct) == {c \in DOMAIN ct : ct[c] = Uninit}
ReadArray(ct, g) == [c \in DOMAIN ct |-> IF ct[c] = Uninit THEN g[c] ELSE ct[c]]

\* theta = np.arccos(np.clip(cos_theta, -1.0, 1.0))
ThetaGrid(ct) == [c \in DOMAIN ct |-> ArcCos(Clip(ct[c], -CosScale, CosScale))]

\* Mutants of the azimuth: the column x = 0 counted with the negative half;
\* the half-plane rule applied in both modes.
PhiGrid_StrictHalf(X, rv, phi_mode, phi_value) ==
    IF phi_mode = "plane"
    THEN [c \in DOMAIN X |-> IF X[c] > 0 THEN 0 ELSE PI]
    ELSE [c \in DOMAIN rv |-> phi_value]
PhiGrid_AlwaysPlane(X, rv, phi_mode, phi_value) ==
    [c \in DOMAIN X |-> IF X[c] >= 0 THEN 0 ELSE PI]

\* Mutant: a mode outside the enum falls back to the default, "plane".
PhiGrid_EnumOnly(X, rv, phi_mode, phi_value) ==
    IF phi_mode = "constant"
    THEN [c \in DOMAIN rv |-> phi_value]
    ELSE [c \in DOMAIN X |-> IF X[c] >= 0 THEN 0 ELSE PI]

\* phi = np.where(Xg >= 0.0, 0.0, np.pi) if phi_mode == "plane"
\*       else np.full_like(r, float(phi_value))
PhiGrid(X, rv, phi_mode, phi_value) ==
    IF phi_mode = "plane"
    THEN [c \in DOMAIN X |-> IF X[c] >= 0 THEN 0 ELSE PI]
    ELSE [c \in DOMAIN rv |-> phi_value]

\* psi = R * Y: a real sample times a complex one.
Product(Ra, Ya) ==
    [c \in DOMAIN Ra |-> <<FMul(Ra[c], Ya[c][1]), FMul(Ra[c], Ya[c][2])>>]

\* np.abs of a complex number <<re, im>>.
ComplexAbs(w) == FSqrt(FAdd(FMul(w[1], w[1]), FMul(w[2], w[2])))

\* Mutant: the magnitude returned unsquared.
compute_probability_density_NoSquare(psi) ==
    [c \in DOMAIN psi |-> ComplexAbs(psi[c])]

\* compute_probability_density(psi): np.abs(psi) ** 2
compute_probability_density(psi) ==
    [c \in DOMAIN psi |-> Power(ComplexAbs(psi[c]), 2)]

\* ---------------------------------------------------------- actions
Idle == pc = "idle"
\* compute_psi_xz_slice has returned its four values.
PsiReturned == pc = "done" /\ fn = "psi" /\ ret.status = "ok"

ResetLocals ==
    /\ mu' = None /\ a_mu' = None
    /\ axis' = None /\ Xg' = None /\ Zg' = None
    /\ r' = None /\ cos_theta' = None /\ theta' = None /\ phi' = None
    /\ R' = None /\ Y' = None
    /\ ret' = NoReturn
    /\ helper_calls' = 0 /\ divisors' = {} /\ read_uninit' = FALSE
    /\ radial' = None

Init ==
    /\ pc = "idle" /\ fn = "none" /\ args = None
    /\ mu = None /\ a_mu = None
    /\ axis = None /\ Xg = None /\ Zg = None
    /\ r = None /\ cos_theta = None /\ theta = None /\ phi = None
    /\ R = None /\ Y = None
    /\ ret = NoReturn
    /\ helper_calls = 0 /\ divisors = {} /\ read_uninit = FALSE
    /\ radial = None /\ memo = None
    /\ wf = None /\ plot = PlotIdle /\ rc = "default" /\ calls = <<>>
    /\ cli = CliIdle

\* A caller invokes compute_psi_xz_slice.
CallPsi ==
    /\ Idle
    /\ \E n \in NValues, l \in LValues, m \in MValues, Z \in ZValues,
          urm \in BOOLEAN, M \in MassValues, ext \in ExtentValues,
          gp \in GridValues, pv \in PhiValues, pm \in PhiModes :
          args' = [n |-> n, l |-> l, m |-> m, Z |-> Z, use_reduced_mass |-> urm,
                   M |-> M, extent_a_mu |-> ext, grid_points |-> gp,
                   phi_value |-> pv, phi_mode |-> pm]
    /\ fn' = "psi" /\ pc' = "psi_validate"
    /\ ResetLocals /\ memo' = memo
    /\ UNCHANGED outer

\* if not (n >= 1 and 0 <= l <= n - 1 and -l <= m <= l): raise ValueError
PsiValidate ==
    /\ pc = "psi_validate"
    /\ IF ValidNLM(args.n, args.l, args.m)
       THEN pc' = "psi_mass" /\ ret' = ret
       ELSE pc' = "done" /\ ret' = Raise("InvalidQuantumNumbers")
    /\ UNCHANGED <<fn, args, mu, a_mu, axis, Xg, Zg, r, cos_theta, theta, phi,
                   R, Y, helper_calls, divisors, read_uninit,
                   radial, memo>>
    /\ UNCHANGED outer

\* mu = ... ; a_mu = reduced_bohr_radius(mu)
PsiMass ==
    /\ pc = "psi_mass"
    /\ LET res == PsiResolveMu(args.Z, args.use_reduced_mass, args.M)
       IN  /\ helper_calls' = helper_calls + res.helper
           /\ IF res.raised
              THEN /\ pc' = "done" /\ ret' = Raise("MissingParameter")
                   /\ UNCHANGED <<mu, a_mu>>
              ELSE /\ pc' = "psi_grid" /\ ret' = ret
                   /\ mu' = Some(res.mu)
                   /\ a_mu' = Some(reduced_bohr_radius(res.mu))
    /\ UNCHANGED <<fn, args, axis, Xg, Zg, r, cos_theta, theta, phi, R, Y,
                   divisors, read_uninit,
                   radial, memo>>
    /\ UNCHANGED outer

\* r_max = extent_a_mu * a_mu; axis = ...; Zg, Xg = ...
PsiGrid ==
    /\ pc = "psi_grid"
    /\ LET ax == PsiAxis(args.extent_a_mu * a_mu[1], args.grid_points)
       IN  axis' = ax /\ Zg' = MeshZ(ax) /\ Xg' = MeshX(ax)
    /\ pc' = "psi_divide"
    /\ UNCHANGED <<fn, args, mu, a_mu, r, cos_theta, theta, phi, R, Y, ret,
                   helper_calls, divisors, read_uninit,
                   radial, memo>>
    /\ UNCHANGED outer

\* r = np.hypot(Xg, Zg); cos_theta = np.empty_like(r); np.divide(...)
PsiDivide ==
    /\ pc = "psi_divide"
    /\ LET rv == PsiRadius(Xg, Zg)
           mask == WhereMask(rv)
       IN  /\ r' = rv
           /\ cos_theta' = DivideWhere(Zg, rv, EmptyLike(rv), mask)
           /\ divisors' = {rv[c] : c \in {d \in DOMAIN rv : mask[d]}}
    /\ pc' = "psi_origin"
    /\ UNCHANGED <<fn, args, mu, a_mu, axis, Xg, Zg, theta, phi, R, Y, ret,
                   helper_calls, read_uninit,
                   radial, memo>>
    /\ UNCHANGED outer

\* cos_theta[r == 0] = 1.0
PsiOrigin ==
    /\ pc = "psi_origin"
    /\ cos_theta' = FixOrigin(cos_theta, r)
    /\ pc' = "psi_angles"
    /\ UNCHANGED <<fn, args, mu, a_mu, axis, Xg, Zg, r, theta, phi, R, Y, ret,
                   helper_calls, divisors, read_uninit,
                   radial, memo>>
    /\ UNCHANGED outer

\* theta = np.arccos(np.clip(cos_theta, -1.0, 1.0)); phi = ...
PsiAngles ==
    /\ pc = "psi_angles"
    /\ \E g \in [UninitCells(cos_theta) -> Garbage] :
          theta' = ThetaGrid(ReadArray(cos_theta, g))
    /\ read_uninit' = (UninitCells(cos_theta) # {})
    /\ phi' = PhiGrid(Xg, r, args.phi_mode, args.phi_value)
    /\ pc' = "psi_radial"
    /\ UNCHANGED <<fn, args, mu, a_mu, axis, Xg, Zg, r, cos_theta, R, Y, ret,
                   helper_calls, divisors,
                   radial, memo>>
    /\ UNCHANGED outer

\* R = radial_wavefunction_Rnl(n, l, r, Z=Z, use_reduced_mass=..., M=M)
PsiRadial ==
    /\ pc = "psi_radial"
    /\ \E res \in {radial_wavefunction_Rnl(args.n, args.l, r, args.Z,
                                             args.use_reduced_mass, args.M)} :
           /\ helper_calls' = helper_calls + res.helper
           /\ IF res.status = "ok"
              THEN /\ pc' = "psi_angular" /\ R' = res.value /\ ret' = ret
                   /\ radial' = res.locals
              ELSE /\ pc' = "done" /\ R' = R /\ ret' = Raise(res.status)
                   /\ radial' = radial
    /\ UNCHANGED <<fn, args, mu, a_mu, axis, Xg, Zg, r, cos_theta, theta, phi,
                   Y, divisors, read_uninit, memo>>
    /\ UNCHANGED outer

\* Y = spherical_harmonic_Ylm(l, m, theta, phi)
PsiAngular ==
    /\ pc = "psi_angular"
    /\ \E res \in {spherical_harmonic_Ylm(args.l, args.m, FloatArr(theta),
                                            FloatArr(phi))} :
           IF res.status = "ok"
           THEN pc' = "psi_return" /\ Y' = res.value /\ ret' = ret
           ELSE pc' = "done" /\ Y' = Y /\ ret' = Raise(res.status)
    /\ UNCHANGED <<fn, args, mu, a_mu, axis, Xg, Zg, r, cos_theta, theta, phi,
                   R, helper_calls, divisors, read_uninit,
                   radial, memo>>
    /\ UNCHANGED outer

\* psi = R * Y; return Xg, Zg, psi, a_mu
PsiReturn ==
    /\ pc = "psi_return"
    /\ ret' = Return([Xg |-> Xg, Zg |-> Zg, psi |-> Product(R, Y),
                      a_mu |-> a_mu[1]])
    /\ pc' = "done"
    /\ UNCHANGED <<fn, args, mu, a_mu, axis, Xg, Zg, r, cos_theta, theta, phi,
                   R, Y, helper_calls, divisors, read_uninit,
                   radial, memo>>
    /\ UNCHANGED outer

\* Radii (units of 1e-14 m) handed to radial_wavefunction_Rnl directly.
RadiusInputs == {0 :> 0, 0 :> 0 @@ 1 :> a0 @@ 2 :> 2 * a0}

\* Angles handed to spherical_harmonic_Ylm directly: Python integers
\* (radians) or float arrays (milliradians).
AngleInputs ==
    { [theta |-> IntArr(0 :> 0), phi |-> IntArr(0 :> 3)],
      [theta |-> IntArr(0 :> 1 @@ 1 :> 3), phi |-> FloatArr(0 :> 0 @@ 1 :> PI)],
      [theta |-> FloatArr(0 :> PI_HALF), phi |-> FloatArr(0 :> 785)] }

\* A caller invokes radial_wavefunction_Rnl.
CallRnl ==
    /\ Idle
    /\ \E n \in NValues, l \in LValues, rin \in RadiusInputs, Z \in ZValues,
          urm \in BOOLEAN, M \in MassValues :
          args' = [n |-> n, l |-> l, r |-> rin, Z |-> Z,
                   use_reduced_mass |-> urm, M |-> M]
    /\ fn' = "Rnl" /\ pc' = "rnl_validate"
    /\ ResetLocals /\ memo' = memo
    /\ UNCHANGED outer

\* if not (n >= 1 and 0 <= l <= n - 1): raise ValueError
RnlValidate ==
    /\ pc = "rnl_validate"
    /\ IF ValidNL(args.n, args.l)
       THEN pc' = "rnl_mass" /\ ret' = ret
       ELSE pc' = "done" /\ ret' = Raise("InvalidQuantumNumbers")
    /\ UNCHANGED <<fn, args, mu, a_mu, axis, Xg, Zg, r, cos_theta, theta, phi,
                   R, Y, helper_calls, divisors, read_uninit,
                   radial, memo>>
    /\ UNCHANGED outer

\* mu = ... ; a_mu = reduced_bohr_radius(mu)
RnlMass ==
    /\ pc = "rnl_mass"
    /\ LET res == RnlResolveMu(args.Z, args.use_reduced_mass, args.M)
       IN  /\ helper_calls' = helper_calls + res.helper
           /\ IF res.raised
              THEN /\ pc' = "done" /\ ret' = Raise("MissingParameter")
                   /\ UNCHANGED <<mu, a_mu>>
              ELSE /\ pc' = "rnl_eval" /\ ret' = ret
                   /\ mu' = Some(res.mu)
                   /\ a_mu' = Some(reduced_bohr_radius(res.mu))
    /\ UNCHANGED <<fn, args, axis, Xg, Zg, r, cos_theta, theta, phi, R, Y,
                   divisors, read_uninit,
                   radial, memo>>
    /\ UNCHANGED outer

\* rho, L, log_pref, pref, R; return R
RnlEval ==
    /\ pc = "rnl_eval"
    /\ radial' = RnlLocals(args.n, args.l, args.Z, a_mu[1])
    /\ R' = RnlValues(args.n, args.l, args.r, args.Z, a_mu[1])
    /\ ret' = Return(R')
    /\ pc' = "done"
    /\ UNCHANGED <<fn, args, mu, a_mu, axis, Xg, Zg, r, cos_theta, theta, phi,
                   Y, helper_calls, divisors, read_uninit, memo>>
    /\ UNCHANGED outer

\* A caller invokes spherical_harmonic_Ylm.
CallYlm ==
    /\ Idle
    /\ \E l \in LValues, m \in MValues, ang \in AngleInputs :
          args' = [l |-> l, m |-> m, theta |-> ang.theta, phi |-> ang.phi]
    /\ fn' = "Ylm" /\ pc' = "ylm_validate"
    /\ ResetLocals /\ memo' = memo
    /\ UNCHANGED outer

\* if not (l >= 0 and -l <= m <= l): raise ValueError
YlmValidate ==
    /\ pc = "ylm_validate"
    /\ IF ValidLM(args.l, args.m)
       THEN pc' = "ylm_convert" /\ ret' = ret
       ELSE pc' = "done" /\ ret' = Raise("InvalidQuantumNumbers")
    /\ UNCHANGED <<fn, args, mu, a_mu, axis, Xg, Zg, r, cos_theta, theta, phi,
                   R, Y, helper_calls, divisors, read_uninit,
                   radial, memo>>
    /\ UNCHANGED outer

\* theta = np.asarray(theta, dtype=float); phi = np.asarray(phi, dtype=float)
YlmConvert ==
    /\ pc = "ylm_convert"
    /\ theta' = AsFloatArray(args.theta).data
    /\ phi' = AsFloatArray(args.phi).data
    /\ pc' = "ylm_eval"
    /\ UNCHANGED <<fn, args, mu, a_mu, axis, Xg, Zg, r, cos_theta, R, Y, ret,
                   helper_calls, divisors, read_uninit,
                   radial, memo>>
    /\ UNCHANGED outer

\* Y = sp.sph_harm_y(l, m, theta, phi); return Y
YlmEval ==
    /\ pc = "ylm_eval"
    /\ Y' = YlmValues(args.l, args.m, theta, phi)
    /\ ret' = Return(Y')
    /\ pc' = "done"
    /\ UNCHANGED <<fn, args, mu, a_mu, axis, Xg, Zg, r, cos_theta, theta, phi,
                   R, helper_calls, divisors, read_uninit,
                   radial, memo>>
    /\ UNCHANGED outer

\* Complex arrays handed to compute_probability_density directly.
DensityInputs ==
    { 0 :> <<FromInt(0), FromInt(0)>>,
      0 :> <<FromInt(3), FromInt(-4)>> @@ 1 :> <<FNorm(-5, 7), FromInt(0)>> }

\* A caller invokes compute_probability_density on an array of its own.
CallDensity ==
    /\ Idle
    /\ \E w \in DensityInputs : args' = [psi |-> w, of |-> None]
    /\ fn' = "density" /\ pc' = "density_eval"
    /\ ResetLocals /\ memo' = memo
    /\ UNCHANGED outer

\* The caller of compute_psi_xz_slice hands the psi it has received to
\* compute_probability_density (hwf_plots.py, lines 60-70).  The field "of"
\* remembers the call psi came from, and its grid and samples stay in view.
CallDensityOfSlice ==
    /\ PsiReturned
    /\ args' = [psi |-> ret.value.psi, of |-> Some(args)]
    /\ fn' = "density" /\ pc' = "density_eval"
    /\ ret' = NoReturn
    /\ UNCHANGED <<mu, a_mu, axis, Xg, Zg, r, cos_theta, theta, phi, R, Y,
                   helper_calls, divisors, read_uninit, radial, memo>>
    /\ UNCHANGED outer

\* return np.abs(psi) ** 2
DensityEval ==
    /\ pc = "density_eval"
    /\ ret' = Return(compute_probability_density(args.psi))
    /\ pc' = "done"
    /\ UNCHANGED <<fn, args, mu, a_mu, axis, Xg, Zg, r, cos_theta, theta, phi,
                   R, Y, helper_calls, divisors, read_uninit, radial, memo>>
    /\ UNCHANGED outer

\* A caller invokes the factorial-based radial_function with quantum numbers
\* n >= 1, 0 <= l <= n - 1 (it has no check of its own) and the length
\* scale a0.
CallRadialFunction ==
    /\ Idle
    /\ \E n \in NValues, l \in LValues, rin \in RadiusInputs :
          /\ ValidNL(n, l)
          /\ args' = [n |-> n, l |-> l, r |-> rin, a0 |-> a0]
    /\ fn' = "radial_function" /\ pc' = "naive_eval"
    /\ ResetLocals /\ memo' = memo
    /\ UNCHANGED outer

RadialFunctionEval ==
    /\ pc = "naive_eval"
    /\ ret' = Return(radial_function(args.n, args.l, args.r, args.a0))
    /\ pc' = "done"
    /\ UNCHANGED <<fn, args, mu, a_mu, axis, Xg, Zg, r, cos_theta, theta, phi,
                   R, Y, helper_calls, divisors, read_uninit, radial, memo>>
    /\ UNCHANGED outer

\* The caller has taken the result (or caught the error): the frame is gone.
Finish ==
    /\ pc = "done"
    /\ pc' = "idle" /\ fn' = "none" /\ args' = None
    /\ ResetLocals
    /\ memo' = IF memo = None THEN memo ELSE Some([memo[1] EXCEPT !.between = 1])
    /\ UNCHANGED outer

Next ==
    \/ CallPsi \/ PsiValidate \/ PsiMass \/ PsiGrid \/ PsiDivide \/ PsiOrigin
    \/ PsiAngles \/ PsiRadial \/ PsiAngular \/ PsiReturn
    \/ CallRnl \/ RnlValidate \/ RnlMass \/ RnlEval
    \/ CallYlm \/ YlmValidate \/ YlmConvert \/ YlmEval
    \/ CallDensity \/ CallDensityOfSlice \/ DensityEval
    \/ CallRadialFunction \/ RadialFunctionEval
    \/ Finish

Spec == Init /\ [][Next]_vars

\* ------------------------------------------------- repeated calls
\* A few calls of each function, valid and invalid, made in any order and
\* any number of times.  An observer remembers one finished call with its
\* outcome (memo), and whether other calls have finished since.
PureCallPsi ==
    /\ Idle
    /\ \E q \in {<<1, 0, 0>>, <<2, 1, 0>>, <<0, 0, 0>>}, Z \in {1, 2},
          M \in {None, Some(7294)} :
          args' = [n |-> q[1], l |-> q[2], m |-> q[3], Z |-> Z,
                   use_reduced_mass |-> TRUE, M |-> M, extent_a_mu |-> 1,
                   grid_points |-> 3, phi_value |-> 0, phi_mode |-> "plane"]
    /\ fn' = "psi" /\ pc' = "psi_validate"
    /\ ResetLocals /\ memo' = memo
    /\ UNCHANGED outer

PureCallRnl ==
    /\ Idle
    /\ \E q \in {<<2, 1>>, <<1, 1>>}, urm \in BOOLEAN :
          args' = [n |-> q[1], l |-> q[2], r |-> 0 :> 0 @@ 1 :> a0 @@ 2 :> 2 * a0,
                   Z |-> 1, use_reduced_mass |-> urm, M |-> None]
    /\ fn' = "Rnl" /\ pc' = "rnl_validate"
    /\ ResetLocals /\ memo' = memo
    /\ UNCHANGED outer

PureCallYlm ==
    /\ Idle
    /\ \E q \in {<<1, 1>>, <<1, 2>>}, ang \in AngleInputs :
          args' = [l |-> q[1], m |-> q[2], theta |-> ang.theta, phi |-> ang.phi]
    /\ fn' = "Ylm" /\ pc' = "ylm_validate"
    /\ ResetLocals /\ memo' = memo
    /\ UNCHANGED outer

\* The observer takes note of the call that has finished.
Remember ==
    /\ pc = "done"
    /\ memo' = Some([fn |-> fn, args |-> args, ret |-> ret, between |-> 0])
    /\ pc' = "idle" /\ fn' = "none" /\ args' = None
    /\ ResetLocals
    /\ UNCHANGED outer

PureNext ==
    \/ PureCallPsi \/ PsiValidate \/ PsiMass \/ PsiGrid \/ PsiDivide
    \/ PsiOrigin \/ PsiAngles \/ PsiRadial \/ PsiAngular \/ PsiReturn
    \/ PureCallRnl \/ RnlValidate \/ RnlMass \/ RnlEval
    \/ PureCallYlm \/ YlmValidate \/ YlmConvert \/ YlmEval
    \/ CallDensity \/ DensityEval
    \/ Finish \/ Remember

PureSpec == Init /\ [][PureNext]_vars

\* --------------------------------------- slices of the bound states
\* The states n <= 3 of hydrogen on grids of 3 and 4 points per axis spanning
\* 5 a_mu, in the default "plane" mode, each slice handed on to
\* compute_probability_density; among them the ground state on the 4 x 4
\* grid and the state (3, 2, 1).  The nuclear mass is omitted (a_mu = 5295) or
\* that of an alpha particle (a_mu = 5293, where linspace's rounded step makes
\* the inner axis values differ in the last digit from their mirror images).
SliceStates ==
    {q \in (1 .. 3) \X (0 .. 2) \X (-2 .. 2) : ValidNLM(q[1], q[2], q[3])}

SliceCallPsi ==
    /\ Idle
    /\ \E q \in SliceStates, M \in {None, Some(7294)}, gp \in {3, 4} :
          args' = [n |-> q[1], l |-> q[2], m |-> q[3], Z |-> 1,
                   use_reduced_mass |-> TRUE, M |-> M, extent_a_mu |-> 5,
                   grid_points |-> gp, phi_value |-> 0, phi_mode |-> "plane"]
    /\ fn' = "psi" /\ pc' = "psi_validate"
    /\ ResetLocals /\ memo' = memo
    /\ UNCHANGED outer

SliceNext ==
    \/ SliceCallPsi \/ PsiValidate \/ PsiMass \/ PsiGrid \/ PsiDivide
    \/ PsiOrigin \/ PsiAngles \/ PsiRadial \/ PsiAngular \/ PsiReturn
    \/ CallDensityOfSlice \/ DensityEval
    \/ Finish

SliceSpec == Init /\ [][SliceNext]_vars

\* =========================================================== claims
\* --------------------------------------------- any phi_mode string
\* phi_mode is annotated Literal["plane", "constant"] (line 86), which
\* Python does not enforce: a caller can pass any string.
PhiModeInputs == {"plane", "constant", "PLANE", "polar", ""}

ModeCallPsi ==
    /\ Idle
    /\ \E q \in {<<1, 0, 0>>, <<2, 1, 1>>, <<1, 1, 0>>}, Z \in {1, 2},
          pv \in PhiValues, pm \in PhiModeInputs :
          args' = [n |-> q[1], l |-> q[2], m |-> q[3], Z |-> Z,
                   use_reduced_mass |-> TRUE, M |-> None, extent_a_mu |-> 1,
                   grid_points |-> 3, phi_value |-> pv, phi_mode |-> pm]
    /\ fn' = "psi" /\ pc' = "psi_validate"
    /\ ResetLocals /\ memo' = memo
    /\ UNCHANGED outer

ModeNext ==
    \/ ModeCallPsi \/ PsiValidate \/ PsiMass \/ PsiGrid \/ PsiDivide
    \/ PsiOrigin \/ PsiAngles \/ PsiRadial \/ PsiAngular \/ PsiReturn
    \/ Finish

ModeSpec == Init /\ [][ModeNext]_vars

\* ----------------------------- plot_hydrogen_wavefunction_xz (hwf_plots.py)
\* The number of plot calls made on one WaveFunction object.
MaxCalls == 2

\* Colormap names a caller passes, and those sns.color_palette accepts.
Colormaps == {"rocket", "not_a_colormap"}
Recognized(colormap) == colormap \in {"rocket", "mako"}

\* Framing scale factors k, exact fractions <<num, den>>: None, 0.2, 0.4.
PlotFactors == {None, Some(<<1, 5>>), Some(<<2, 5>>)}

\* WaveFunction objects a caller builds; extent_a_mu (a float) is an exact
\* fraction.  pydantic checks the field types at construction, not the
\* quantum numbers: (1, 1, 0) is an object like any other.  The factors and
\* states give whole extents to every slice that gets as far as its grid.
WaveFunctions ==
    { [n |-> q[1], l |-> q[2], m |-> q[3], Z |-> Z, use_reduced_mass |-> TRUE,
       M |-> None, extent_a_mu |-> <<3, 1>>, grid_points |-> 3,
       phi_value |-> 0, phi_mode |-> "plane"] :
      q \in {<<2, 1, 0>>, <<2, 1, 1>>, <<1, 1, 0>>}, Z \in {1, 2} }

\* Mutant of the extent: the l term forgotten.
FramingExtent_NoL(k, n, l, Z) == Rat(k[1] * (3 * n * n), k[2] * 2 * Z)

\* float(k * (3 * wf.n * wf.n - wf.l * (wf.l + 1)) / (2 * wf.Z))
FramingExtent(k, n, l, Z) ==
    Rat(k[1] * (3 * n * n - l * (l + 1)), k[2] * 2 * Z)

\* The float extent as compute_psi_xz_slice receives it: a whole number of
\* a_mu where it is one.
ExtentArgument(q) == IF q[2] = 1 THEN q[1] ELSE q

\* Mutants of the order of the statements: the extent written before the
\* colormap is looked up; the slice computed before the extent is written.
PlotOrder_ExtentFirst == <<"extent", "colormap", "slice", "density", "styles">>
PlotOrder_SliceFirst == <<"colormap", "slice", "extent", "density", "styles">>

\* The statements of plot_hydrogen_wavefunction_xz in the order of the text:
\* the colormap lookup (lines 51-54), the extent (56-57), the slice (60-68),
\* the density (70), the global styles and the drawing (72-199).
PlotOrder == <<"colormap", "extent", "slice", "density", "styles">>

PlotAfter(step) ==
    LET Following(i) == IF i = Len(PlotOrder) THEN "return" ELSE PlotOrder[i + 1]
    IN  Following(CHOOSE i \in 1 .. Len(PlotOrder) : PlotOrder[i] = step)

PlotAt(step) == plot.pc = step
PlotAdvance(step) == [plot EXCEPT !.pc = PlotAfter(step)]
PlotRaise(err) == [plot EXCEPT !.pc = "raised", !.error = err]

\* main.py: wf = WaveFunction(n=..., l=..., m=...)
NewWaveFunction ==
    /\ PlotAt("idle") /\ Idle
    /\ wf' \in WaveFunctions
    /\ calls' = <<>>
    /\ UNCHANGED <<pc, fn, args, mu, a_mu, axis, Xg, Zg, r, cos_theta, theta,
                   phi, R, Y, ret, helper_calls, divisors, read_uninit, radial,
                   memo, plot, rc, cli>>

\* main.py: plot_hydrogen_wavefunction_xz(wf, colormap=..., k=...)
PlotCall ==
    /\ PlotAt("idle") /\ Idle /\ wf # None /\ Len(calls) < MaxCalls
    /\ \E cm \in Colormaps, k \in PlotFactors :
          plot' = [pc |-> PlotOrder[1], colormap |-> cm, k |-> k,
                   entry |-> wf, rc_entry |-> rc, slices |-> 0,
                   error |-> "none", out |-> NoReturn]
    /\ UNCHANGED <<pc, fn, args, mu, a_mu, axis, Xg, Zg, r, cos_theta, theta,
                   phi, R, Y, ret, helper_calls, divisors, read_uninit, radial,
                   memo, wf, rc, calls, cli>>

\* try: sns.color_palette(colormap) except Exception: raise ValueError
PlotColormap ==
    /\ PlotAt("colormap")
    /\ plot' = IF Recognized(plot.colormap) THEN PlotAdvance("colormap")
               ELSE PlotRaise("InvalidColormap")
    /\ UNCHANGED <<pc, fn, args, mu, a_mu, axis, Xg, Zg, r, cos_theta, theta,
                   phi, R, Y, ret, helper_calls, divisors, read_uninit, radial,
                   memo, wf, rc, calls, cli>>

\* if k is not None: wf.extent_a_mu = float(k * (...) / (2 * wf.Z))
PlotExtent ==
    /\ PlotAt("extent")
    /\ wf' = IF plot.k # None
             THEN [wf EXCEPT !.extent_a_mu =
                                FramingExtent(plot.k[1], wf.n, wf.l, wf.Z)]
             ELSE wf
    /\ plot' = PlotAdvance("extent")
    /\ UNCHANGED <<pc, fn, args, mu, a_mu, axis, Xg, Zg, r, cos_theta, theta,
                   phi, R, Y, ret, helper_calls, divisors, read_uninit, radial,
                   memo, rc, calls, cli>>

\* compute_psi_xz_slice(n=wf.n, ..., phi_mode=wf.phi_mode) is entered.
PlotSlice ==
    /\ PlotAt("slice") /\ Idle
    /\ args' = [wf EXCEPT !.extent_a_mu = ExtentArgument(wf.extent_a_mu)]
    /\ fn' = "psi" /\ pc' = "psi_validate"
    /\ ResetLocals /\ memo' = memo
    /\ plot' = [plot EXCEPT !.pc = "in_slice", !.slices = @ + 1]
    /\ UNCHANGED <<wf, rc, calls, cli>>

\* Xg, Zg, psi, a_mu = ...: the slice is received, or its error passes
\* through plot_hydrogen_wavefunction_xz, which catches nothing.
PlotSliceReturned ==
    /\ PlotAt("in_slice") /\ pc = "done" /\ fn = "psi"
    /\ plot' = IF ret.status = "ok"
               THEN [PlotAdvance("slice") EXCEPT !.out = ret]
               ELSE [PlotRaise(ret.status) EXCEPT !.out = ret]
    /\ UNCHANGED <<pc, fn, args, mu, a_mu, axis, Xg, Zg, r, cos_theta, theta,
                   phi, R, Y, ret, helper_calls, divisors, read_uninit, radial,
                   memo, wf, rc, calls, cli>>

\* P = compute_probability_density(psi) is entered.
PlotDensity ==
    /\ PlotAt("density") /\ PsiReturned
    /\ args' = [psi |-> ret.value.psi, of |-> Some(args)]
    /\ fn' = "density" /\ pc' = "density_eval"
    /\ ret' = NoReturn
    /\ plot' = [plot EXCEPT !.pc = "in_density"]
    /\ UNCHANGED <<mu, a_mu, axis, Xg, Zg, r, cos_theta, theta, phi, R, Y,
                   helper_calls, divisors, read_uninit, radial, memo,
                   wf, rc, calls, cli>>

PlotDensityReturned ==
    /\ PlotAt("in_density") /\ pc = "done" /\ fn = "density"
    /\ plot' = PlotAdvance("density")
    /\ UNCHANGED <<pc, fn, args, mu, a_mu, axis, Xg, Zg, r, cos_theta, theta,
                   phi, R, Y, ret, helper_calls, divisors, read_uninit, radial,
                   memo, wf, rc, calls, cli>>

\* plt.rcParams[...] = ...; the figure is drawn and saved.
PlotStyles ==
    /\ PlotAt("styles")
    /\ rc' = "styled"
    /\ plot' = PlotAdvance("styles")
    /\ UNCHANGED <<pc, fn, args, mu, a_mu, axis, Xg, Zg, r, cos_theta, theta,
                   phi, R, Y, ret, helper_calls, divisors, read_uninit, radial,
                   memo, wf, calls, cli>>

\* The call is over, having returned or raised: its frame and those of the
\* functions it called are gone, wf and rcParams stay.
PlotFinish ==
    /\ plot.pc \in {"return", "raised"}
    /\ calls' = Append(calls, [colormap |-> plot.colormap, k |-> plot.k,
                               before |-> plot.entry, after |-> wf,
                               error |-> plot.error, out |-> plot.out])
    /\ plot' = PlotIdle
    /\ pc' = "idle" /\ fn' = "none" /\ args' = None
    /\ ResetLocals /\ memo' = memo
    /\ UNCHANGED <<wf, rc, cli>>

PlotNext ==
    \/ NewWaveFunction \/ PlotCall \/ PlotColormap \/ PlotExtent
    \/ PlotSlice \/ PsiValidate \/ PsiMass \/ PsiGrid \/ PsiDivide
    \/ PsiOrigin \/ PsiAngles \/ PsiRadial \/ PsiAngular \/ PsiReturn
    \/ PlotSliceReturned \/ PlotDensity \/ DensityEval
    \/ PlotDensityReturned \/ PlotStyles \/ PlotFinish

PlotSpec == Init /\ [][PlotNext]_vars

\* ---------------------------------------------------------------------------
\* The command-line program (hydrogen_wavefunction_cli.py, __main__).
\*
\* What the user types is a sequence of characters.  int() and float() are
\* modelled on entries without blanks, underscores or exponents.  A float is
\* a pair <<num, den>>: den > 0 is the finite value num/den, den = 0 is
\* nan (num = 0), inf (num = 1) or -inf (num = -1).
\* ---------------------------------------------------------------------------
CliEntries ==
    {<<>>, <<"x">>, <<"0">>, <<"1">>, <<"2">>, <<"-", "1">>,
     <<"1", ".", "5">>, <<"-", "0", ".", "5">>, <<"n", "a", "n">>,
     <<"i", "n", "f">>}
ArgvEntries == {<<"x">>, <<"0">>, <<"1">>, <<"2">>}
ThemeEntries == {<<>>, <<"y">>, <<"Y", "E", "S">>, <<"n", "o">>}
ColormapEntries == {"", "rocket", "not_a_colormap"}

\* The decimal digits and their values.
DigitValue ==
    [c \in {"0", "1", "2", "3", "4", "5", "6", "7", "8", "9"} |->
        CHOOSE d \in 0..9 :
            <<"0", "1", "2", "3", "4", "5", "6", "7", "8", "9">>[d + 1] = c]

RECURSIVE DigitsValue(_)
DigitsValue(t) ==
    IF t = <<>> THEN 0
    ELSE 10 * DigitsValue(SubSeq(t, 1, Len(t) - 1)) + DigitValue[t[Len(t)]]

RECURSIVE PowerOfTen(_)
PowerOfTen(d) == IF d = 0 THEN 1 ELSE 10 * PowerOfTen(d - 1)

\* int(input(...)): an optional sign and at least one digit; None stands for
\* the ValueError.
ParseInt(t) ==
    LET signed == t # <<>> /\ t[1] \in {"+", "-"}
        sign == IF t # <<>> /\ t[1] = "-" THEN -1 ELSE 1
        u == IF signed THEN Tail(t) ELSE t
    IN  IF u # <<>> /\ \A i \in DOMAIN u : u[i] \in DOMAIN DigitValue
        THEN Some(sign * DigitsValue(u))
        ELSE None

\* float(input(...)): an optional sign, then nan, inf, infinity or digits
\* with at most one point; None stands for the ValueError.
ParseFloat(t) ==
    LET signed == t # <<>> /\ t[1] \in {"+", "-"}
        sign == IF t # <<>> /\ t[1] = "-" THEN -1 ELSE 1
        u == IF signed THEN Tail(t) ELSE t
        dots == {i \in DOMAIN u : u[i] = "."}
        AllDigits(w) == \A i \in DOMAIN w : w[i] \in DOMAIN DigitValue
        Decimal(i) ==
            LET ip == SubSeq(u, 1, i - 1)
                fp == SubSeq(u, i + 1, Len(u))
            IN  IF AllDigits(ip) /\ AllDigits(fp) /\ Len(ip) + Len(fp) > 0
                THEN Some(<<sign * (DigitsValue(ip) * PowerOfTen(Len(fp))
                                    + DigitsValue(fp)),
                            PowerOfTen(Len(fp))>>)
                ELSE None
    IN  IF u = <<"n", "a", "n">> THEN Some(<<0, 0>>)
        ELSE IF u \in {<<"i", "n", "f">>,
                       <<"i", "n", "f", "i", "n", "i", "t", "y">>}
             THEN Some(<<sign, 0>>)
        ELSE IF dots = {} THEN
             IF u # <<>> /\ AllDigits(u)
             THEN Some(<<sign * DigitsValue(u), 1>>) ELSE None
        ELSE IF Cardinality(dots) = 1 THEN Decimal(CHOOSE i \in dots : TRUE)
        ELSE None

\* x <= 0 on floats; every comparison with nan is False.
FloatLeqZero(x) == IF x[2] = 0 THEN x[1] < 0 ELSE x[1] <= 0

\* str.lower() on the letters of ThemeEntries.
Lower(t) ==
    LET LowerChar(c) ==
            IF c = "Y" THEN "y" ELSE IF c = "E" THEN "e"
            ELSE IF c = "S" THEN "s" ELSE c
    IN  [i \in DOMAIN t |-> LowerChar(t[i])]

\* The program changes nothing of the library or of the plot layer.
CliRest ==
    UNCHANGED <<pc, fn, args, mu, a_mu, axis, Xg, Zg, r, cos_theta, theta,
                phi, R, Y, ret, helper_calls, divisors, read_uninit, radial,
                memo, wf, plot, calls>>

\* parser.parse_args() with no positional argument: all four are None and
\* the interactive section is entered.
CliInteractive ==
    /\ cli.pc = "off"
    /\ cli' = [cli EXCEPT !.pc = "prompt_n", !.interactive = TRUE]
    /\ rc' = rc /\ CliRest

\* parser.parse_args() with the four positional arguments: argparse converts
\* them with int and float and exits on a conversion error; the interactive
\* section is skipped.
CliArguments ==
    /\ cli.pc = "off"
    /\ \E tn \in ArgvEntries, tl \in ArgvEntries, tm \in ArgvEntries,
          ta \in ArgvEntries :
          cli' = IF None \in {ParseInt(tn), ParseInt(tl), ParseInt(tm),
                              ParseFloat(ta)}
                 THEN [cli EXCEPT !.pc = "usage_error"]
                 ELSE [cli EXCEPT !.pc = "call",
                                  !.n = ParseInt(tn), !.l = ParseInt(tl),
                                  !.m = ParseInt(tm),
                                  !.a0_scale_factor = ParseFloat(ta)]
    /\ rc' = rc /\ CliRest

\* One pass of the loop asking for n: the entry is converted, stored in
\* args.n, and only then checked.
CliPromptN ==
    /\ cli.pc = "prompt_n"
    /\ \E e \in CliEntries :
          \E v \in {ParseInt(e)} :
             cli' = IF v = None THEN cli
                    ELSE IF v[1] < 1 THEN [cli EXCEPT !.n = v]
                    ELSE [cli EXCEPT !.n = v, !.pc = "prompt_l"]
    /\ rc' = rc /\ CliRest

CliPromptL ==
    /\ cli.pc = "prompt_l"
    /\ \E e \in CliEntries :
          \E v \in {ParseInt(e)} :
             cli' = IF v = None THEN cli
                    ELSE IF ~(0 <= v[1] /\ v[1] < cli.n[1])
                         THEN [cli EXCEPT !.l = v]
                    ELSE [cli EXCEPT !.l = v, !.pc = "prompt_m"]
    /\ rc' = rc /\ CliRest

CliPromptM ==
    /\ cli.pc = "prompt_m"
    /\ \E e \in CliEntries :
          \E v \in {ParseInt(e)} :
             cli' = IF v = None THEN cli
                    ELSE IF ~(-cli.l[1] <= v[1] /\ v[1] <= cli.l[1])
                         THEN [cli EXCEPT !.m = v]
                    ELSE [cli EXCEPT !.m = v, !.pc = "prompt_scale"]
    /\ rc' = rc /\ CliRest

CliPromptScale ==
    /\ cli.pc = "prompt_scale"
    /\ \E e \in CliEntries :
          \E v \in {ParseFloat(e)} :
             cli' = IF v = None THEN cli
                    ELSE IF FloatLeqZero(v[1])
                         THEN [cli EXCEPT !.a0_scale_factor = v]
                    ELSE [cli EXCEPT !.a0_scale_factor = v,
                                     !.pc = "prompt_theme"]
    /\ rc' = rc /\ CliRest

CliPromptTheme ==
    /\ cli.pc = "prompt_theme"
    /\ \E e \in ThemeEntries :
          cli' = [cli EXCEPT !.dark_theme =
                                 Lower(e) \in {<<"y", "e", "s">>, <<"y">>},
                             !.pc = "prompt_colormap"]
    /\ rc' = rc /\ CliRest

CliPromptColormap ==
    /\ cli.pc = "prompt_colormap"
    /\ \E e \in ColormapEntries :
          cli' = IF e = "" THEN [cli EXCEPT !.colormap = "rocket",
                                            !.pc = "call"]
                 ELSE IF Recognized(e)
                      THEN [cli EXCEPT !.colormap = e, !.pc = "call"]
                 ELSE [cli EXCEPT !.colormap = e]
    /\ rc' = rc /\ CliRest

\* What plot_wf_probability_density checks of n, l, m before anything else;
\* int() and argparse only ever hand it integers.
CliValidQuantumNumbers(n, l, m) ==
    /\ n >= 1
    /\ 0 <= l /\ l < n
    /\ -l <= m /\ m <= l

\* plot_wf_probability_density(args.n, args.l, args.m, args.a0_scale_factor,
\* args.dark_theme, args.colormap): the call and the whole function.
CliPlot ==
    /\ cli.pc = "call"
    /\ LET ok == /\ CliValidQuantumNumbers(cli.n[1], cli.l[1], cli.m[1])
                 /\ Recognized(cli.colormap)
       IN  /\ cli' = [cli EXCEPT
                         !.pc = IF ok THEN "drawn" ELSE "raised",
                         !.invoked = Some([n |-> cli.n[1], l |-> cli.l[1],
                                           m |-> cli.m[1],
                                           a0_scale_factor |->
                                               cli.a0_scale_factor[1]])]
           /\ rc' = IF ok THEN "styled" ELSE rc
    /\ CliRest

\* The process ends; the program may be run again.
CliExit ==
    /\ cli.pc \in {"drawn", "raised", "usage_error"}
    /\ cli' = CliIdle
    /\ rc' = "default" /\ CliRest

CliNext ==
    \/ CliInteractive \/ CliArguments \/ CliPromptN \/ CliPromptL
    \/ CliPromptM \/ CliPromptScale \/ CliPromptTheme \/ CliPromptColormap
    \/ CliPlot \/ CliExit

CliSpec == Init /\ [][CliNext]_vars

Errors == {"InvalidQuantumNumbers", "MissingParameter"}
PsiDone == fn = "psi" /\ pc = "done"
RnlDone == fn = "Rnl" /\ pc = "done"
YlmDone == fn = "Ylm" /\ pc = "done"
MassAsked == fn \in {"psi", "Rnl"}

\* The three facts of the missing-mass case, read off the arguments.
MassMissing == args.Z > 1 /\ args.M = None /\ args.use_reduced_mass

\* C1: a call of compute_psi_xz_slice ends in InvalidQuantumNumbers if and
\* only if NOT (n >= 1 and 0 <= l <= n-1 and -l <= m <= l); (0, l, m),
\* (2, 2, m) and (2, 1, 2) are rejected.
C1_PsiRejectsExactlyInvalidTriples ==
    PsiDone =>
        /\ (ret.status = "InvalidQuantumNumbers") <=>
              ~(args.n >= 1 /\ 0 <= args.l /\ args.l <= args.n - 1
                /\ -args.l <= args.m /\ args.m <= args.l)
        /\ (args.n = 0 \/ (args.n = 2 /\ args.l = 2)
            \/ (args.n = 2 /\ args.l = 1 /\ args.m = 2))
              => ret.status = "InvalidQuantumNumbers"

\* C1 witness: the triple (2, 1, 2), wrong in m alone, has been rejected.
C1_Witness ==
    /\ PsiDone /\ args.n = 2 /\ args.l = 1 /\ args.m = 2
    /\ ret.status = "InvalidQuantumNumbers"

\* C2 as stated: a call of radial_wavefunction_Rnl or compute_psi_xz_slice
\* ends in MissingParameter if and only if Z > 1, M is None and
\* use_reduced_mass hold together.
C2_Original ==
    (MassAsked /\ pc = "done") =>
        ((ret.status = "MissingParameter") <=> MassMissing)

\* C2 amended: such a call ends in MissingParameter if and only if Z > 1,
\* M is None and use_reduced_mass hold together and the quantum numbers pass
\* the function's own entry check ((n, l) for the radial evaluator,
\* (n, l, m) for the composer); with invalid quantum numbers it ends in
\* InvalidQuantumNumbers instead.
C2_MissingParameterExactly ==
    (MassAsked /\ pc = "done") =>
        LET nl == args.n >= 1 /\ 0 <= args.l /\ args.l <= args.n - 1
            qn == IF fn = "psi"
                  THEN nl /\ -args.l <= args.m /\ args.m <= args.l
                  ELSE nl
        IN  /\ (ret.status = "MissingParameter") <=> (MassMissing /\ qn)
            /\ (MassMissing /\ ~qn) => ret.status = "InvalidQuantumNumbers"

\* C2 witness: the composer has raised MissingParameter for Z = 2 without M.
C2_Witness ==
    /\ PsiDone /\ ret.status = "MissingParameter"
    /\ args.Z = 2 /\ args.M = None /\ args.use_reduced_mass

\* C3: in compute_psi_xz_slice the quantum-number check and the mass check
\* are over before a grid, a spherical coordinate or an evaluator's sample
\* exists, and a rejected call leaves and returns none of them.
C3_PsiValidatesAtEntry ==
    fn = "psi" =>
        LET built == axis # None \/ Xg # None \/ Zg # None \/ r # None
                     \/ cos_theta # None \/ theta # None \/ phi # None
                     \/ R # None \/ Y # None
        IN  /\ built =>
                /\ args.n >= 1 /\ 0 <= args.l /\ args.l <= args.n - 1
                /\ -args.l <= args.m /\ args.m <= args.l
                /\ ~MassMissing
                /\ mu # None /\ a_mu # None
            /\ ret.status \in Errors => (~built /\ ret.value = None)
            /\ pc \in {"psi_validate", "psi_mass"} => ~built

\* C3 witness: a call with valid quantum numbers rejected for its missing
\* mass, with nothing built.
C3_Witness ==
    /\ PsiDone /\ ret.status = "MissingParameter"
    /\ args.n = 2 /\ args.l = 1 /\ args.m = -1
    /\ Xg = None /\ Zg = None /\ a_mu = None /\ ret.value = None

\* C4: radial_wavefunction_Rnl ends in InvalidQuantumNumbers if and only if
\* NOT (n >= 1 and 0 <= l <= n-1), whatever r, Z, use_reduced_mass and M
\* are, and it does so with the reduced mass not yet resolved.
C4_RnlRejectsExactlyInvalidPairs ==
    RnlDone =>
        /\ (ret.status = "InvalidQuantumNumbers") <=>
              ~(args.n >= 1 /\ 0 <= args.l /\ args.l <= args.n - 1)
        /\ ret.status = "InvalidQuantumNumbers" =>
              (mu = None /\ a_mu = None /\ helper_calls = 0 /\ R = None)

\* C4 witness: (n, l) = (2, 2) rejected although the mass is missing too.
C4_Witness ==
    /\ RnlDone /\ args.n = 2 /\ args.l = 2
    /\ args.Z = 2 /\ args.M = None /\ args.use_reduced_mass
    /\ ret.status = "InvalidQuantumNumbers" /\ mu = None

\* C5: spherical_harmonic_Ylm ends in InvalidQuantumNumbers if and only if
\* NOT (l >= 0 and -l <= m <= l), and it does so before an angle array is
\* converted or evaluated.
C5_YlmRejectsExactlyInvalidPairs ==
    YlmDone =>
        /\ (ret.status = "InvalidQuantumNumbers") <=>
              ~(args.l >= 0 /\ -args.l <= args.m /\ args.m <= args.l)
        /\ ret.status = "InvalidQuantumNumbers" =>
              (theta = None /\ phi = None /\ Y = None)
        /\ ret.status = "ok" => (theta # None /\ phi # None)

\* C5 witness: (l, m) = (1, -2) rejected with no angle converted.
C5_Witness ==
    /\ YlmDone /\ args.l = 1 /\ args.m = -2
    /\ ret.status = "InvalidQuantumNumbers" /\ theta = None /\ phi = None

\* The call has got past the resolution of the reduced mass.
MassResolved == MassAsked /\ pc \notin {"idle", "psi_validate", "psi_mass",
                                        "rnl_validate", "rnl_mass"}
                /\ ret.status \notin Errors

\* C6: with use_reduced_mass = False, mu is the electron mass and a_mu is
\* the bare Bohr radius a0 exactly, for every Z and M (Z > 1 with M = None
\* included); the reduced-mass helper is not consulted and no
\* MissingParameter arises.
C6_NoCorrectionGivesBohrRadius ==
    (MassAsked /\ ~args.use_reduced_mass) =>
        /\ helper_calls = 0
        /\ ret.status # "MissingParameter"
        /\ MassResolved => (mu = Some(<<m_e, 1>>) /\ a_mu = Some(a0))
        /\ (PsiDone /\ ret.status = "ok") => ret.value.a_mu = a0

\* C6 witness: Z = 2 without M and without the correction returns a0.
C6_Witness ==
    /\ PsiDone /\ ~args.use_reduced_mass /\ args.Z = 2 /\ args.M = None
    /\ ret.status = "ok" /\ ret.value.a_mu = a0 /\ helper_calls = 0

\* C7: with the correction requested the nuclear mass used is M when M is
\* supplied (any Z) and the proton mass when M is omitted and Z = 1;
\* mu = m_e*M/(m_e+M) and a_mu = a0*(m_e/mu) (to the nearest length unit).
C7_ReducedMassAndLengthScale ==
    (MassAsked /\ args.use_reduced_mass /\ MassResolved) =>
        LET Mn == IF args.M # None THEN args.M[1] ELSE m_p
            num == mu[1][1]
            den == mu[1][2]
        IN  /\ args.M = None => args.Z = 1
            /\ mu # None /\ a_mu # None
            /\ num * (m_e + Mn) = m_e * Mn * den
            /\ 2 * Abs(a_mu[1] * num - a0 * m_e * den) <= num
            /\ (args.M = None /\ args.Z = 1) =>
                  num * (m_e + m_p) = m_e * m_p * den

\* C7 witness: hydrogen with M omitted has returned the reduced Bohr radius
\* 5.295e-11 m, larger than a0.
C7_Witness ==
    /\ PsiDone /\ args.use_reduced_mass /\ args.Z = 1 /\ args.M = None
    /\ ret.status = "ok" /\ mu = Some(<<1836, 1837>>)
    /\ ret.value.a_mu = 5295

\* C8: a successful call of compute_psi_xz_slice returns Xg, Zg and psi of
\* shape (grid_points, grid_points) each, and a strictly positive a_mu.
C8_ShapesAndPositiveScale ==
    (PsiDone /\ ret.status = "ok") =>
        LET gp == args.grid_points
        IN  /\ DOMAIN ret.value.Xg = Cells(gp, gp)
            /\ DOMAIN ret.value.Zg = Cells(gp, gp)
            /\ DOMAIN ret.value.psi = Cells(gp, gp)
            /\ Shape2(ret.value.psi) = <<gp, gp>>
            /\ ret.value.a_mu > 0

\* C8 witness: a 3 x 3 slice has been returned.
C8_Witness ==
    /\ PsiDone /\ ret.status = "ok" /\ args.grid_points = 3
    /\ Shape2(ret.value.Xg) = <<3, 3>> /\ Shape2(ret.value.psi) = <<3, 3>>

GridBuilt == fn = "psi" /\ Xg # None /\ Zg # None

\* The grid runs from -extent_a_mu*a_mu to +extent_a_mu*a_mu on both axes.
GridSpans ==
    LET r_max == args.extent_a_mu * a_mu[1]
    IN  /\ SetMin(Values(Xg)) = -r_max /\ SetMax(Values(Xg)) = r_max
        /\ SetMin(Values(Zg)) = -r_max /\ SetMax(Values(Zg)) = r_max
        /\ Values(Xg) = Values(Zg)

\* C9 as stated: for every extent_a_mu > 0 and every grid_points > 0 the
\* smallest coordinate along x and along z is -extent_a_mu*a_mu and the
\* largest +extent_a_mu*a_mu, and both axes use the same values.
C9_Original == GridBuilt => GridSpans

\* C9 amended: that holds for every extent_a_mu > 0 and every
\* grid_points >= 2; with grid_points = 1 the grid is the single point
\* (-extent_a_mu*a_mu, -extent_a_mu*a_mu).
C9_GridSpansExtent ==
    GridBuilt =>
        /\ args.grid_points >= 2 => GridSpans
        /\ args.grid_points = 1 =>
              /\ Values(Xg) = {-(args.extent_a_mu * a_mu[1])}
              /\ Values(Zg) = {-(args.extent_a_mu * a_mu[1])}

\* C9 witness: a 3-point grid of half-width 2 a_mu with both end points.
C9_Witness ==
    /\ GridBuilt /\ args.grid_points = 3 /\ args.extent_a_mu = 2
    /\ SetMin(Values(Xg)) = -2 * a_mu[1] /\ SetMax(Values(Zg)) = 2 * a_mu[1]

\* C10: no division by r = 0; at r = 0 cos(theta) is 1, elsewhere it is the
\* quotient z/r (within [-1, 1] once clipped); no entry of cos_theta is read
\* before it is written; so every theta lies in [0, pi], 0 on the positive z
\* half-axis, pi on the negative one, pi/2 where z = 0 and x # 0.
C10_NoDivisionByZero ==
    fn = "psi" =>
        /\ 0 \notin divisors
        /\ ~read_uninit
        /\ (cos_theta # None /\ pc # "psi_origin") =>
              \A c \in DOMAIN cos_theta :
                 /\ cos_theta[c] # Uninit
                 /\ r[c] = 0 => cos_theta[c] = CosScale
                 /\ r[c] # 0 =>
                       2 * Abs(cos_theta[c] * r[c] - Zg[c] * CosScale) <= r[c]
        /\ theta # None =>
              \A c \in DOMAIN theta :
                 /\ theta[c] # NaN /\ 0 <= theta[c] /\ theta[c] <= PI
                 /\ r[c] = 0 => theta[c] = 0
                 /\ (Xg[c] = 0 /\ Zg[c] > 0) => theta[c] = 0
                 /\ (Xg[c] = 0 /\ Zg[c] < 0) => theta[c] = PI
                 /\ (Zg[c] = 0 /\ Xg[c] # 0) => theta[c] = PI_HALF

\* C10 witness: the angles of a grid holding the nucleus and a point of each
\* half-axis have been computed.
C10_Witness ==
    /\ fn = "psi" /\ theta # None
    /\ \E c \in DOMAIN theta : r[c] = 0 /\ theta[c] = 0
    /\ \E c \in DOMAIN theta : Xg[c] = 0 /\ Zg[c] < 0 /\ theta[c] = PI
    /\ \E c \in DOMAIN theta : Zg[c] = 0 /\ Xg[c] > 0 /\ theta[c] = PI_HALF

\* The composer has computed its azimuth array.
PhiBuilt == fn = "psi" /\ phi # None

\* C11: in phi_mode "plane" phi is 0 at every grid point with x >= 0 (x = 0
\* included) and pi at every grid point with x < 0; it takes no other value,
\* and phi_value has no effect: the array is the same for every phi_value.
C11_PlaneAzimuth ==
    (PhiBuilt /\ args.phi_mode = "plane") =>
        /\ \A c \in DOMAIN phi :
              /\ Xg[c] >= 0 => phi[c] = 0
              /\ Xg[c] < 0 => phi[c] = PI
              /\ phi[c] \in {0, PI}
        /\ \A v \in PhiValues : phi = PhiGrid(Xg, r, "plane", v)

\* C11 witness: a plane-mode grid with the column x = 0 at phi = 0 and a
\* column x < 0 at phi = pi, computed under a non-zero phi_value.
C11_Witness ==
    /\ PhiBuilt /\ args.phi_mode = "plane" /\ args.phi_value = 785
    /\ \E c \in DOMAIN phi : Xg[c] = 0 /\ phi[c] = 0
    /\ \E c \in DOMAIN phi : Xg[c] < 0 /\ phi[c] = PI

\* C12: in phi_mode "constant" phi is the caller's phi_value at every grid
\* point, whatever the sign of x, and the phi array has the grid's shape.
C12_ConstantAzimuth ==
    (PhiBuilt /\ args.phi_mode = "constant") =>
        /\ \A c \in DOMAIN phi : phi[c] = args.phi_value
        /\ DOMAIN phi = Cells(args.grid_points, args.grid_points)
        /\ DOMAIN phi = DOMAIN Xg

\* C12 witness: a constant-mode grid holding phi_value = pi/4 at a point with
\* x < 0 and at a point with x > 0.
C12_Witness ==
    /\ PhiBuilt /\ args.phi_mode = "constant" /\ args.phi_value = 785
    /\ \E c \in DOMAIN phi : Xg[c] < 0 /\ phi[c] = 785
    /\ \E c \in DOMAIN phi : Xg[c] > 0 /\ phi[c] = 785

\* C19: once compute_psi_xz_slice has passed its entry checks the nested
\* calls cannot fail: the accepted (n, l, m) satisfies the precondition of
\* radial_wavefunction_Rnl and of spherical_harmonic_Ylm, the radial
\* evaluator resolves the same reduced mass from the same (Z,
\* use_reduced_mass, M), and no InvalidQuantumNumbers or MissingParameter is
\* raised after the grid has been built.
C19_NestedCallsCannotFail ==
    GridBuilt =>
        /\ ret.status \notin Errors
        /\ ValidNL(args.n, args.l) /\ ValidLM(args.l, args.m)
        /\ LET res == RnlResolveMu(args.Z, args.use_reduced_mass, args.M)
           IN  ~res.raised /\ Some(res.mu) = mu
        /\ r # None =>
              radial_wavefunction_Rnl(args.n, args.l, r, args.Z,
                                      args.use_reduced_mass, args.M).status = "ok"
        /\ (theta # None /\ phi # None) =>
              spherical_harmonic_Ylm(args.l, args.m, FloatArr(theta),
                                     FloatArr(phi)).status = "ok"

\* C19 witness: a call for Z = 2 with its nuclear mass supplied has returned,
\* the helper consulted once by the composer and once by the radial
\* evaluator.
C19_Witness ==
    /\ PsiDone /\ ret.status = "ok" /\ helper_calls = 2
    /\ args.Z = 2 /\ args.M # None /\ args.use_reduced_mass
    /\ args.n = 2 /\ args.l = 1 /\ args.m = -1

\* Two floats agree to the rounding of the arithmetic: they differ by at
\* most a fiftieth of the sum of their magnitudes.
Close(a, b) ==
    FLeq(FMul(FromInt(50), FAbs(FSub(a, b))), FAdd(FAbs(a), FAbs(b)))

\* |w|^2 of a complex number, and x^2 of a real one.
AbsSquared(w) == FAdd(FMul(w[1], w[1]), FMul(w[2], w[2]))
Squared(x) == FMul(x, x)

\* compute_probability_density has returned the density of a slice that
\* compute_psi_xz_slice had returned.
SliceDensityDone == fn = "density" /\ pc = "done" /\ args.of # None

\* C13: the psi returned by compute_psi_xz_slice is the elementwise product
\* R*Y of the radial and the angular samples evaluated with the call's own
\* (n, l, m, Z, use_reduced_mass, M) on the call's grid;
\* compute_probability_density of it has the same shape, is non-negative at
\* every grid point and equals |R|^2 * |Y|^2 there (to the rounding of the
\* arithmetic), and so for any array it is given.
C13_DensityIsSeparable ==
    /\ PsiReturned =>
          /\ R = radial_wavefunction_Rnl(args.n, args.l, r, args.Z,
                                         args.use_reduced_mass, args.M).value
          /\ Y = spherical_harmonic_Ylm(args.l, args.m, FloatArr(theta),
                                        FloatArr(phi)).value
          /\ DOMAIN R = DOMAIN Xg /\ DOMAIN Y = DOMAIN Xg
          /\ DOMAIN ret.value.psi = DOMAIN Xg
          /\ \A c \in DOMAIN Xg :
                ret.value.psi[c] = <<FMul(R[c], Y[c][1]), FMul(R[c], Y[c][2])>>
    /\ (fn = "density" /\ pc = "done") =>
          /\ ret.status = "ok"
          /\ DOMAIN ret.value = DOMAIN args.psi
          /\ \A c \in DOMAIN ret.value :
                /\ ret.value[c][1] >= 0
                /\ Close(ret.value[c], AbsSquared(args.psi[c]))
    /\ SliceDensityDone =>
          /\ DOMAIN ret.value = DOMAIN Xg
          /\ \A c \in DOMAIN ret.value :
                Close(ret.value[c], FMul(Squared(R[c]), AbsSquared(Y[c])))

\* C13 witness: the density of a (2, 1, 1) slice at phi = pi/4, where Y has
\* a real and an imaginary part, is positive at some grid point.
C13_Witness ==
    /\ SliceDensityDone
    /\ args.of[1].n = 2 /\ args.of[1].l = 1 /\ args.of[1].m = 1
    /\ args.of[1].phi_mode = "constant" /\ args.of[1].phi_value = 785
    /\ \E c \in DOMAIN ret.value :
          /\ Y[c][1][1] # 0 /\ Y[c][2][1] # 0 /\ R[c][1] # 0
          /\ ret.value[c][1] > 0

\* The grid points where the density returned attains its largest value.
ArgMax(D) == {c \in DOMAIN D : \A d \in DOMAIN D : FLeq(D[d], D[c])}
\* The grid points nearest the nucleus.
Nearest == {c \in DOMAIN r : \A d \in DOMAIN r : r[c] <= r[d]}

\* The density of the ground-state scenario has been returned: (n, l, m) =
\* (1, 0, 0), Z = 1, use_reduced_mass = True, extent_a_mu = 5, grid_points = 4.
GroundScenario ==
    /\ SliceDensityDone
    /\ args.of[1].n = 1 /\ args.of[1].l = 0 /\ args.of[1].m = 0
    /\ args.of[1].Z = 1 /\ args.of[1].use_reduced_mass
    /\ args.of[1].M = None
    /\ args.of[1].extent_a_mu = 5 /\ args.of[1].grid_points = 4

\* C14 as stated: in the ground-state scenario the grids have shape (4, 4)
\* and the density has a single maximum at the grid point nearest r = 0:
\* exactly one grid point attains the maximum density value.
C14_Original ==
    GroundScenario =>
        /\ Shape2(Xg) = <<4, 4>> /\ Shape2(Zg) = <<4, 4>>
        /\ Shape2(ret.value) = <<4, 4>>
        /\ Cardinality(ArgMax(ret.value)) = 1
        /\ ArgMax(ret.value) \subseteq Nearest

\* C14 amended: in the ground-state scenario the grids have shape (4, 4),
\* a_mu is 5.295e-11 m, and the maximum density value is attained only at
\* central grid points (row and column 1 or 2), the points nearest r = 0;
\* the nucleus is not a grid point and these four points are at the same
\* distance from it with densities equal to rounding, so the maximum is not
\* attained at one grid point only; every other grid point has a strictly
\* smaller density.
C14_MaximumAtCentralPoints ==
    GroundScenario =>
        /\ Shape2(Xg) = <<4, 4>> /\ Shape2(Zg) = <<4, 4>>
        /\ Shape2(args.psi) = <<4, 4>> /\ Shape2(ret.value) = <<4, 4>>
        /\ a_mu = Some(5295)
        /\ 0 \notin Values(r)
        /\ Nearest = {1, 2} \X {1, 2}
        /\ ArgMax(ret.value) # {}
        /\ ArgMax(ret.value) \subseteq Nearest
        /\ \A c \in Nearest, d \in Nearest : Close(ret.value[c], ret.value[d])
        /\ \A c \in DOMAIN r \ Nearest, d \in Nearest :
              FLess(ret.value[c], ret.value[d])

\* C14 witness: the ground-state density on the 4 x 4 grid, largest at the
\* central point (1, 1) and smaller at the corner (0, 0).
C14_Witness ==
    /\ GroundScenario
    /\ <<1, 1>> \in ArgMax(ret.value)
    /\ FLess(ret.value[<<0, 0>>], ret.value[<<1, 1>>])

\* The grid point mirrored in the plane x = 0.
Mirror(c) == <<c[1], args.of[1].grid_points - 1 - c[2]>>

\* C15 as stated: in phi_mode "plane" the density of (3, 2, 1), and of every
\* valid state, satisfies density[i][j] = density[i][N-1-j] for all i, j,
\* the mirrored point having the same r and theta.
C15_Original ==
    (SliceDensityDone /\ args.of[1].phi_mode = "plane") =>
        \A c \in DOMAIN ret.value :
            /\ ret.value[c] = ret.value[Mirror(c)]
            /\ r[Mirror(c)] = r[c] /\ theta[Mirror(c)] = theta[c]

\* C15 amended: in phi_mode "plane" the density of (3, 2, 1), and of every
\* valid state, is symmetric under the sign flip of x to the rounding of the
\* arithmetic: density[i][j] and density[i][N-1-j] agree to rounding for all
\* i, j.  Where the axis values of columns j and N-1-j are exact mirror
\* images (linspace makes them so for the end columns only) the mirrored
\* point has the same r and theta and its phi differs by the pi-shift, which
\* changes the phase of Y and not |Y|; elsewhere r and theta of the two
\* points differ by the rounding of the axis values.
C15_DensityMirrorSymmetric ==
    (SliceDensityDone /\ args.of[1].phi_mode = "plane") =>
        /\ \A c \in DOMAIN ret.value :
              /\ Mirror(c) \in DOMAIN ret.value
              /\ Close(ret.value[c], ret.value[Mirror(c)])
              /\ Xg[Mirror(c)] = -Xg[c] =>
                    /\ r[Mirror(c)] = r[c] /\ theta[Mirror(c)] = theta[c]
                    /\ Xg[c] # 0 => Abs(phi[Mirror(c)] - phi[c]) = PI
                    /\ Close(AbsSquared(Y[c]), AbsSquared(Y[Mirror(c)]))
        /\ axis[args.of[1].grid_points - 1] = -axis[0]

\* C15 witness: the density of (3, 2, 1) on the 4 x 4 grid is positive and
\* equal at a point with x < 0, where phi = pi, and at its mirror image.
C15_Witness ==
    /\ SliceDensityDone /\ args.of[1].phi_mode = "plane"
    /\ args.of[1].n = 3 /\ args.of[1].l = 2 /\ args.of[1].m = 1
    /\ args.of[1].grid_points = 4
    /\ \E c \in DOMAIN ret.value :
          /\ Xg[c] < 0 /\ phi[c] = PI /\ phi[Mirror(c)] = 0
          /\ ret.value[c][1] > 0
          /\ ret.value[c] = ret.value[Mirror(c)]

\* The radial evaluation of the call has just been made: the composer is
\* past line 136, or radial_wavefunction_Rnl has returned.
RadialJustEvaluated ==
    \/ fn = "psi" /\ pc = "psi_angular"
    \/ fn = "Rnl" /\ pc = "done" /\ ret.status = "ok"

\* The radii the radial evaluation was made at.
RadialInput == IF fn = "psi" THEN r ELSE args.r

\* (2Z/(n a_mu))^(3/2) * sqrt((n-l-1)! / (2n (n+l)!)), a_mu in metres.
ClosedFormPrefactor(n, l, Z, amu) ==
    LET q == FDivide(FromInt(2 * Z), FMul(FromInt(n), Metres(amu)))
    IN  FMul(FMul(q, FSqrt(q)),
             FSqrt(FDivide(FromInt(factorial(n - l - 1)),
                           FromInt(2 * n * factorial(n + l)))))

\* C16: the prefactor of radial_wavefunction_Rnl is
\* exp(1.5*log(2Z/(n a_mu)) + 0.5*(log_gamma(n-l) - log(2n) - log_gamma(n+l+1))),
\* computed from logarithms and log-gammas and not from a factorial; for
\* every valid (n, l) it equals (2Z/(n a_mu))^(3/2) * sqrt((n-l-1)!/(2n (n+l)!))
\* (to the rounding of the arithmetic), and the result is
\* prefactor * exp(-rho/2) * rho^l * L_{n-l-1}^{(2l+1)}(rho) with
\* rho = 2 Z r / (n a_mu).
C16_LogSpacePrefactor ==
    RadialJustEvaluated =>
        LET n == args.n
            l == args.l
            Z == args.Z
            q == FDivide(FromInt(2 * Z), FMul(FromInt(n), Metres(a_mu[1])))
            logp == FDiv(3 * Log(q), 2)
                    + FDiv(gammaln(n - l) - Log(FromInt(2 * n))
                           - gammaln(n + l + 1), 2)
        IN  /\ radial.a_mu = a_mu[1]
            /\ radial.log_pref = logp
            /\ radial.pref = Exp(logp)
            /\ Close(radial.pref, ClosedFormPrefactor(n, l, Z, a_mu[1]))
            /\ DOMAIN R = DOMAIN RadialInput
            /\ \A c \in DOMAIN R :
                  LET rho == FDiv(2 * Z * RadialInput[c] * FixScale,
                                  n * a_mu[1])
                  IN  R[c] = FMul(FMul(FMul(radial.pref, Exp(FDiv(-rho, 2))),
                                       Power(FromFix(rho), l)),
                                  eval_genlaguerre(n - l - 1, 2 * l + 1,
                                                   FromFix(rho)))

\* C16 witness: R_{2,0} of hydrogen has been evaluated at r = a0, where the
\* sample is not zero, with a positive prefactor.
C16_Witness ==
    /\ fn = "Rnl" /\ pc = "done" /\ ret.status = "ok"
    /\ args.n = 2 /\ args.l = 0 /\ args.Z = 1
    /\ radial.pref[1] > 0
    /\ \E c \in DOMAIN R : args.r[c] = a0 /\ R[c][1] # 0

\* The call has passed the radial precondition and has not yet evaluated the
\* radial function.
RadialPending ==
    \/ fn = "Rnl" /\ pc \in {"rnl_mass", "rnl_eval"}
    \/ fn = "psi" /\ pc = "psi_radial"

\* C20: for every (n, l) that passes the radial precondition the generalized
\* Laguerre polynomial is requested with the integer degree n-l-1 >= 0 and
\* the parameter 2l+1 >= 1, and log-gamma is evaluated at the positive
\* integers n-l >= 1 and n+l+1 >= 2, never at a pole.
C20_SpecialFunctionArguments ==
    /\ RadialPending =>
          /\ LaguerreDegree(args.n, args.l) >= 0
          /\ LaguerreParam(args.l) >= 1
          /\ GammaArgs(args.n, args.l)[1] >= 1
          /\ GammaArgs(args.n, args.l)[2] >= 2
          /\ gammaln(GammaArgs(args.n, args.l)[1]) # Inf
          /\ gammaln(GammaArgs(args.n, args.l)[2]) # Inf
    /\ (MassAsked /\ radial # None) =>
          /\ radial.laguerre = <<args.n - args.l - 1, 2 * args.l + 1>>
          /\ radial.gamma = <<args.n - args.l, args.n + args.l + 1>>
          /\ radial.laguerre[1] >= 0 /\ radial.laguerre[2] >= 1
          /\ radial.gamma[1] >= 1 /\ radial.gamma[2] >= 2
    /\ (MassAsked /\ ~ValidNL(args.n, args.l)) => radial = None

\* C20 witness: R_{2,1} has been evaluated: the Laguerre degree is 0 and the
\* first log-gamma argument 1, the smallest values the precondition admits.
C20_Witness ==
    /\ fn = "Rnl" /\ pc = "done" /\ args.n = 2 /\ args.l = 1
    /\ radial # None
    /\ radial.laguerre = <<0, 3>> /\ radial.gamma = <<1, 4>>

\* The factorial-based radial_function has returned.
NaiveDone == fn = "radial_function" /\ pc = "done"

\* C18: the factorial-based radial_function and radial_wavefunction_Rnl
\* implement the same mathematics: for Z = 1 and the same n, l, r and length
\* scale a both use the prefactor (2/(n a))^(3/2) * sqrt((n-l-1)!/(2n (n+l)!))
\* and the reduced radius rho = 2r/(n a), and so return the same value for
\* every valid (n, l).
C18_NaiveAgreesWithStabilized ==
    NaiveDone =>
        LET n == args.n
            l == args.l
            a == args.a0
        IN  /\ Close(NaiveConstantFactor(n, l, a), ClosedFormPrefactor(n, l, 1, a))
            /\ Close(NaiveConstantFactor(n, l, a), Exp(RnlLogPref(n, l, 1, a)))
            /\ \A c \in DOMAIN args.r :
                  /\ FDiv(2 * args.r[c] * FixScale, n * a)
                        = RnlRho(n, 1, a, args.r[c])
                  /\ Close(ret.value[c], RnlValues(n, l, args.r, 1, a)[c])

\* A call is in progress: it has been entered and has not finished.
Running == pc \notin {"idle", "done"}

\* The call that has finished is the remembered one made again.
Repeated ==
    /\ pc = "done" /\ memo # None
    /\ memo[1].fn = fn /\ memo[1].args = args

\* What holds in every state of a sequence of calls.
C17_State ==
    /\ Repeated => memo[1].ret = ret
    /\ pc \in {"psi_validate", "psi_mass", "rnl_validate", "rnl_mass"} =>
          (mu = None /\ a_mu = None)
    /\ (MassAsked /\ a_mu # None) =>
          LET res == IF fn = "psi"
                     THEN PsiResolveMu(args.Z, args.use_reduced_mass, args.M)
                     ELSE RnlResolveMu(args.Z, args.use_reduced_mass, args.M)
          IN  /\ a_mu = Some(reduced_bohr_radius(res.mu))
              /\ args.use_reduced_mass => helper_calls >= 1

\* What holds of every step of a call in progress.
C17_Step == Running => (args' = args /\ fn' = fn /\ memo' = memo)

\* C17: radial_wavefunction_Rnl, spherical_harmonic_Ylm, compute_psi_xz_slice
\* and compute_probability_density are pure: no step of a call changes the
\* call's arguments or anything that outlives the call; a_mu is unset when a
\* call starts and is recomputed from the call's own arguments; and a call
\* with the arguments of an earlier call ends with the same result, or the
\* same error, whatever calls were made between the two.
C17_Purity == [](C17_State) /\ [][C17_Step]_vars

\* C17 witness: a slice call for Z = 2 with the alpha-particle mass has
\* returned what the same call had returned earlier, other calls having
\* finished between the two.
C17_Witness ==
    /\ Repeated /\ fn = "psi" /\ ret.status = "ok" /\ memo[1].ret = ret
    /\ memo[1].between = 1
    /\ args.Z = 2 /\ args.M = Some(7294) /\ args.n = 2

\* C24: compute_psi_xz_slice does not validate phi_mode.  Every phi_mode
\* other than "plane", inside the enum or not, fills phi with phi_value as
\* "constant" does, and a call ends in an error only for its quantum numbers
\* or its missing mass, never for its phi_mode.
C24_AnyOtherModeIsConstant ==
    /\ (PhiBuilt /\ args.phi_mode # "plane") =>
          /\ \A c \in DOMAIN phi : phi[c] = args.phi_value
          /\ phi = PhiGrid(Xg, r, "constant", args.phi_value)
    /\ PsiDone =>
          ret.status = IF ~ValidNLM(args.n, args.l, args.m)
                       THEN "InvalidQuantumNumbers"
                       ELSE IF MassMissing THEN "MissingParameter" ELSE "ok"

\* C24 witness: a slice has been returned for phi_mode "polar", which is
\* outside the enum, with phi = pi/4 at a point with x < 0.
C24_Witness ==
    /\ PsiReturned /\ args.phi_mode = "polar" /\ args.phi_value = 785
    /\ \E c \in DOMAIN phi : Xg[c] < 0 /\ phi[c] = 785

\* The fields of a WaveFunction other than extent_a_mu.
OtherFields(w) == [w EXCEPT !.extent_a_mu = None]

\* The fraction e is k * (3 n^2 - l (l + 1)) / (2 Z) for the state of w.
IsFraming(e, k, w) ==
    /\ e[2] > 0
    /\ e[1] * (k[2] * 2 * w.Z) = e[2] * (k[1] * (3 * w.n * w.n - w.l * (w.l + 1)))

\* The k of the most recent call that passed one: of all the calls, or of
\* those whose colormap was recognized.
LastFactor(h, all) ==
    LET S == {i \in 1 .. Len(h) :
                 h[i].k # None /\ (all \/ Recognized(h[i].colormap))}
    IN  IF S = {} THEN None ELSE h[SetMax(S)].k

\* wf between two plot calls, and the extent it was built with.
BetweenCalls == PlotAt("idle") /\ wf # None
OriginalExtent ==
    IF calls = <<>> THEN wf.extent_a_mu ELSE calls[1].before.extent_a_mu

\* What the calls made so far have done to wf, the calls that write the
\* extent being all those with a k, or those with a k and a recognized
\* colormap.
PlotHistory(all) ==
    /\ \A i \in 1 .. Len(calls) :
          /\ OtherFields(calls[i].after) = OtherFields(calls[i].before)
          /\ IF calls[i].k # None /\ (all \/ Recognized(calls[i].colormap))
             THEN IsFraming(calls[i].after.extent_a_mu, calls[i].k[1],
                            calls[i].after)
             ELSE calls[i].after = calls[i].before
          /\ calls[i].after = IF i = Len(calls) THEN wf ELSE calls[i + 1].before
    /\ IF LastFactor(calls, all) = None
       THEN wf.extent_a_mu = OriginalExtent
       ELSE IsFraming(wf.extent_a_mu, LastFactor(calls, all)[1], wf)
    /\ \A i, j \in 1 .. Len(calls) :
          (/\ calls[i].k = calls[j].k /\ calls[i].k # None
           /\ (all \/ (Recognized(calls[i].colormap)
                        /\ Recognized(calls[j].colormap)))) =>
             /\ calls[i].after.extent_a_mu = calls[j].after.extent_a_mu
             /\ calls[i].out = calls[j].out

\* C21 as stated: every call with a k overwrites wf.extent_a_mu with
\* k (3 n^2 - l (l + 1)) / (2 Z), so that after any sequence of calls the
\* extent is the one derived from the most recent k that was not None.
C21_Original == BetweenCalls => PlotHistory(TRUE)

\* C21 amended: a call whose colormap is recognized overwrites
\* wf.extent_a_mu with k (3 n^2 - l (l + 1)) / (2 Z) when k is not None; a
\* call with k None, or with an unrecognized colormap, leaves wf as it is;
\* no call changes another field of wf.  After any sequence of calls on one
\* wf the extent is the one derived from the most recent k that was not None
\* among the calls with a recognized colormap (the original extent if there
\* was none), and two such calls with the same k leave the same extent and
\* get the same slice.
C21_ExtentFollowsLastFactor ==
    /\ BetweenCalls => PlotHistory(FALSE)
    /\ ~PlotAt("idle") => OtherFields(wf) = OtherFields(plot.entry)

\* C21 witness: two calls on a wf built with extent 3, the first with
\* k = 0.4 and the second with k = 0.2, have drawn the state (2, 1, 0), and
\* the extent is 0.2 * 10 / 2 = 1.
C21_Witness ==
    /\ BetweenCalls /\ Len(calls) = 2
    /\ calls[1].k = Some(<<2, 5>>) /\ calls[2].k = Some(<<1, 5>>)
    /\ calls[1].error = "none" /\ calls[2].error = "none"
    /\ calls[1].after.extent_a_mu = <<2, 1>>
    /\ wf.extent_a_mu = <<1, 1>> /\ OriginalExtent = <<3, 1>>
    /\ wf.n = 2 /\ wf.l = 1 /\ wf.m = 0

\* C22: plot_hydrogen_wavefunction_xz looks the colormap up first.  A call
\* with an unrecognized colormap ends in the colormap error and in no other,
\* and at no moment of it has wf been written, compute_psi_xz_slice been
\* called or rcParams been set.
C22_ColormapCheckedFirst ==
    /\ (~PlotAt("idle") /\ ~Recognized(plot.colormap)) =>
          /\ wf = plot.entry /\ rc = plot.rc_entry
          /\ plot.slices = 0 /\ Idle
          /\ ~PlotAt("return")
          /\ PlotAt("raised") => plot.error = "InvalidColormap"
    /\ (PlotAt("raised") /\ plot.error = "InvalidColormap") =>
          ~Recognized(plot.colormap)

\* C22 witness: a call with k = 0.4 on a wf with invalid quantum numbers,
\* made after a call that had set the styles, has raised the colormap
\* error, with wf and rcParams as they were.
C22_Witness ==
    /\ PlotAt("raised") /\ plot.error = "InvalidColormap"
    /\ plot.k = Some(<<2, 5>>) /\ wf.n = 1 /\ wf.l = 1
    /\ wf = plot.entry /\ rc = "styled" /\ plot.slices = 0

FloatPositive(x) == x[1] > 0

CliPrompts == <<"prompt_n", "prompt_l", "prompt_m", "prompt_scale">>
CliFields(c) == <<c.n, c.l, c.m, c.a0_scale_factor>>
CliPromptNo(c) ==
    IF \E i \in DOMAIN CliPrompts : CliPrompts[i] = c.pc
    THEN CHOOSE i \in DOMAIN CliPrompts : CliPrompts[i] = c.pc
    ELSE Len(CliPrompts) + 1

\* Field i has been asked for only once the fields before it were accepted.
C25_Order ==
    cli.interactive =>
        \A i \in DOMAIN CliPrompts :
            i > CliPromptNo(cli) => CliFields(cli)[i] = None

\* The quantum numbers accepted so far satisfy their conditions.
C25_AcceptedQuantumNumbers ==
    cli.interactive =>
        /\ CliPromptNo(cli) > 1 => cli.n # None /\ cli.n[1] >= 1
        /\ CliPromptNo(cli) > 2 =>
               cli.l # None /\ 0 <= cli.l[1] /\ cli.l[1] < cli.n[1]
        /\ CliPromptNo(cli) > 3 =>
               cli.m # None /\ -cli.l[1] <= cli.m[1] /\ cli.m[1] <= cli.l[1]

\* The accepted scale factor is greater than 0.
C25_AcceptedScaleFactor ==
    cli.interactive /\ CliPromptNo(cli) > 4 =>
        cli.a0_scale_factor # None /\ FloatPositive(cli.a0_scale_factor[1])

\* The plot function was invoked with valid quantum numbers and a scale
\* factor greater than 0.
C25_Invocation ==
    cli.interactive /\ cli.invoked # None =>
        /\ CliPromptNo(cli) > 4
        /\ CliValidQuantumNumbers(cli.invoked[1].n, cli.invoked[1].l,
                                  cli.invoked[1].m)
        /\ FloatPositive(cli.invoked[1].a0_scale_factor)

\* An entry either is rejected and the same field is asked for again, or is
\* accepted and the next prompt follows; the fields accepted before stay.
C25_Step ==
    cli.interactive /\ CliPromptNo(cli) <= 4 /\ cli' # cli =>
        /\ CliPromptNo(cli') \in {CliPromptNo(cli), CliPromptNo(cli) + 1}
        /\ cli'.pc # "call"
        /\ \A i \in DOMAIN CliPrompts :
               i # CliPromptNo(cli) => CliFields(cli')[i] = CliFields(cli)[i]

C25_PromptsGuardThePlot ==
    /\ [](C25_Order /\ C25_AcceptedQuantumNumbers /\ C25_AcceptedScaleFactor
          /\ C25_Invocation)
    /\ [][C25_Step]_vars

\* The parts of C25 that do not concern the value of the scale factor.
C25_PromptsExceptScale ==
    /\ [](C25_Order /\ C25_AcceptedQuantumNumbers)
    /\ [][C25_Step]_vars

\* The entry nan was accepted as scale factor and handed to the plot function.
C25_NanInvoked ==
    /\ cli.interactive /\ cli.invoked # None
    /\ cli.invoked[1].a0_scale_factor = <<0, 0>>

====
